---- MODULE Spec2Model ----
(***************************************************************************)
(* Layered UTXO cache of namecoin-core (src/src/coins.cpp).                *)
(*                                                                         *)
(* A stack of views: view 0 is the persistent backing store, views         *)
(* 1, 2, 3 are CCoinsViewCache objects, cache l being layered on           *)
(* view l-1.  Every action is one public call on one cache, including the  *)
(* read-through it performs on the views below it.                         *)
(***************************************************************************)
EXTENDS Integers, Sequences, FiniteSets, TLC

(* ------------------------------------------------------------------ *)
(* Bounds and value domains                                           *)
(* ------------------------------------------------------------------ *)

\* A call that throws a logic_error leaves the usage counter of a cache off
\* its true value; further throwing calls are explored only while the
\* counter is off by fewer than MaxDriftCoins large coins.
MaxDriftCoins == 1

\* The caches of the stack; cache l is layered on view l-1, view 0 is the
\* backing store.
Caches == {1, 2, 3}

\* The caches that Spec and SpecStack make calls on (the third cache stays
\* empty there; Spec3 uses all three).
CallCaches == {1, 2}

\* The outpoints the calls on the stack are made for.
OutPoints == {"O1"}

\* uint256() is the null hash.
NullHash == "null"
BlockHashes == {"h1"}

\* The names the name calls are made for, and the records they carry: two
\* records registered at the same height and one at another height.
Names == {"n"}
NameData1 == [value |-> "v1", nHeight |-> 100]
NameData2 == [value |-> "v2", nHeight |-> 100]
NameData3 == [value |-> "v3", nHeight |-> 200]
NameDatas == {NameData1, NameData2, NameData3}
Heights == {d.nHeight : d \in NameDatas}

\* The name calls are explored while no history stack is longer than this.
MaxHistory == 1

\* The most outputs a transaction handed to AddCoins has.
MaxOutputs == 2

(* ------------------------------------------------------------------ *)
(* Coin                                                               *)
(* ------------------------------------------------------------------ *)

\* CTxOut null value and an empty script: what Coin() and Coin::Clear() give.
coinEmpty == [nValue |-> -1, scriptSize |-> 0, opReturn |-> FALSE]

\* A pay-to-pubkey-hash output: 25 script bytes, held inside the prevector.
CoinSmall == [nValue |-> 10, scriptSize |-> 25, opReturn |-> FALSE]
\* An output with a 40-byte script: the prevector allocates on the heap.
CoinLarge == [nValue |-> 20, scriptSize |-> 40, opReturn |-> FALSE]
\* A provably unspendable output (script starts with OP_RETURN).
CoinUnspendable == [nValue |-> 30, scriptSize |-> 40, opReturn |-> TRUE]

LiveCoins == {CoinSmall, CoinLarge}

IsSpent(coin) == coin.nValue = -1

IsUnspendable(coin) == coin.scriptSize > 0 /\ coin.opReturn

MallocUsage(alloc) == IF alloc = 0 THEN 0 ELSE ((alloc + 31) \div 16) * 16

\* Heap bytes owned by the coin: the script, when it does not fit the
\* 28 bytes of direct prevector storage.
DynamicMemoryUsage(coin) ==
    IF coin.scriptSize <= 28 THEN 0 ELSE MallocUsage(coin.scriptSize)

DIRTY == "DIRTY"
FRESH == "FRESH"

CCoinsCacheEntry(coin, flags) == [coin |-> coin, flags |-> flags]

(* ------------------------------------------------------------------ *)
(* State                                                              *)
(* ------------------------------------------------------------------ *)

VARIABLES
    dbCoins,            \* backing store: outpoint -> coin (a partial map)
    dbBestBlock,        \* backing store: best block hash
    cacheCoins,         \* per cache: outpoint -> CCoinsCacheEntry (partial map)
    cachedCoinsUsage,   \* per cache: the memory counter, a size_t; a value n
                        \* below zero stands for the wrapped value 2^64 + n
    hashBlock,          \* per cache: the best-block marker
    cacheNames,         \* per cache: the CNameCache of unflushed name changes
    dbNames,            \* backing store: names, name histories, expire index
    fNameHistory,       \* whether name histories are tracked
    m_err_callbacks,    \* error catcher: the registered read-error callbacks
    called,             \* the callbacks that have run, in the order they ran
    last                \* the call that produced this state and its outcome

vars == <<dbCoins, dbBestBlock, cacheCoins, cachedCoinsUsage, hashBlock,
          cacheNames, dbNames, fNameHistory, m_err_callbacks, called, last>>

\* The mutable part of the stack that a call threads through the views.
Stack == [db |-> dbCoins, dbBest |-> dbBestBlock, coins |-> cacheCoins,
          usage |-> cachedCoinsUsage, hash |-> hashBlock,
          names |-> cacheNames, dbNames |-> dbNames,
          fNameHistory |-> fNameHistory]

\* std::unordered_map primitives.
MapErase(m, k) == [x \in (DOMAIN m) \ {k} |-> m[x]]
MapPut(m, k, v) == [x \in (DOMAIN m) \cup {k} |-> IF x = k THEN v ELSE m[x]]
EmptyMap == [x \in {} |-> coinEmpty]

(* ------------------------------------------------------------------ *)
(* Reads                                                              *)
(* ------------------------------------------------------------------ *)

\* The backing store's GetCoin: true with the stored coin (live or spent)
\* when it has a record, false otherwise.
DbGetCoin(st, o) ==
    IF o \in DOMAIN st.db
    THEN [st |-> st, ret |-> TRUE, coin |-> st.db[o]]
    ELSE [st |-> st, ret |-> FALSE, coin |-> coinEmpty]

RECURSIVE ViewGetCoin(_, _, _)

\* A FetchCoin that marks the image it caches as DIRTY.
FetchCoin_MarksDirty(st, l, o) ==
    IF o \in DOMAIN st.coins[l]
    THEN [st |-> st, found |-> TRUE]
    ELSE LET r == ViewGetCoin(st, l - 1, o) IN
         IF ~r.ret
         THEN [st |-> r.st, found |-> FALSE]
         ELSE LET ret == CCoinsCacheEntry(r.coin, {DIRTY})
              IN [st |-> [r.st EXCEPT
                            !.coins[l] = MapPut(@, o, ret),
                            !.usage[l] = @ + DynamicMemoryUsage(r.coin)],
                  found |-> TRUE]

\* CCoinsViewCache::FetchCoin on cache l: the stack after the call and
\* whether the returned iterator is valid.
FetchCoin(st, l, o) ==
    IF o \in DOMAIN st.coins[l]
    THEN [st |-> st, found |-> TRUE]
    ELSE LET r == ViewGetCoin(st, l - 1, o) IN
         IF ~r.ret
         THEN [st |-> r.st, found |-> FALSE]
         ELSE LET flags == IF IsSpent(r.coin) THEN {FRESH} ELSE {}
                  ret == CCoinsCacheEntry(r.coin, flags)
              IN [st |-> [r.st EXCEPT
                            !.coins[l] = MapPut(@, o, ret),
                            !.usage[l] = @ + DynamicMemoryUsage(r.coin)],
                  found |-> TRUE]

\* GetCoin on view v: the backing store for v = 0, else
\* CCoinsViewCache::GetCoin.
ViewGetCoin(st, v, o) ==
    IF v = 0
    THEN DbGetCoin(st, o)
    ELSE LET f == FetchCoin(st, v, o) IN
         IF f.found
         THEN [st |-> f.st,
               ret |-> ~IsSpent(f.st.coins[v][o].coin),
               coin |-> f.st.coins[v][o].coin]
         ELSE [st |-> f.st, ret |-> FALSE, coin |-> coinEmpty]

\* CCoinsViewCache::HaveCoin.
HaveCoin(st, l, o) ==
    LET f == FetchCoin(st, l, o) IN
    [st |-> f.st, ret |-> f.found /\ ~IsSpent(f.st.coins[l][o].coin)]

\* CCoinsViewCache::AccessCoin.
AccessCoin(st, l, o) ==
    LET f == FetchCoin(st, l, o) IN
    [st |-> f.st, coin |-> IF f.found THEN f.st.coins[l][o].coin ELSE coinEmpty]

\* CCoinsViewCache::HaveCoinInCache.
HaveCoinInCache(st, l, o) ==
    o \in DOMAIN st.coins[l] /\ ~IsSpent(st.coins[l][o].coin)

(* ------------------------------------------------------------------ *)
(* Writes on one cache                                                *)
(* ------------------------------------------------------------------ *)

\* AddCoin as it would be if it marked every added entry FRESH, whatever
\* possible_overwrite says.
AddCoin_AlwaysFresh(st, l, o, coin, possible_overwrite) ==
    IF IsUnspendable(coin) THEN [st |-> st, err |-> "none"]
    ELSE
    LET inserted == o \notin DOMAIN st.coins[l]
        it == IF inserted THEN CCoinsCacheEntry(coinEmpty, {}) ELSE st.coins[l][o]
        usage1 == IF inserted THEN st.usage[l]
                  ELSE st.usage[l] - DynamicMemoryUsage(it.coin)
    IN IF ~possible_overwrite /\ ~IsSpent(it.coin)
       THEN [st |-> [st EXCEPT !.usage[l] = usage1], err |-> "OverwriteUnspent"]
       ELSE [st |-> [st EXCEPT
                       !.coins[l] = MapPut(@, o,
                           CCoinsCacheEntry(coin, it.flags \cup {DIRTY, FRESH})),
                       !.usage[l] = usage1 + DynamicMemoryUsage(coin)],
             err |-> "none"]

\* AddCoin as it would be without the check for an unspent entry: it
\* overwrites and never throws.
AddCoin_NoOverwriteCheck(st, l, o, coin, possible_overwrite) ==
    IF IsUnspendable(coin) THEN [st |-> st, err |-> "none"]
    ELSE
    LET inserted == o \notin DOMAIN st.coins[l]
        it == IF inserted THEN CCoinsCacheEntry(coinEmpty, {}) ELSE st.coins[l][o]
        usage1 == IF inserted THEN st.usage[l]
                  ELSE st.usage[l] - DynamicMemoryUsage(it.coin)
        fresh == ~possible_overwrite /\ DIRTY \notin it.flags
        flags == it.flags \cup {DIRTY} \cup (IF fresh THEN {FRESH} ELSE {})
    IN [st |-> [st EXCEPT
                  !.coins[l] = MapPut(@, o, CCoinsCacheEntry(coin, flags)),
                  !.usage[l] = usage1 + DynamicMemoryUsage(coin)],
        err |-> "none"]

\* AddCoin as it would be if fresh were !possible_overwrite alone, without
\* the look at the entry's DIRTY flag.
AddCoin_FreshIgnoresDirty(st, l, o, coin, possible_overwrite) ==
    IF IsUnspendable(coin) THEN [st |-> st, err |-> "none"]
    ELSE
    LET inserted == o \notin DOMAIN st.coins[l]
        it == IF inserted THEN CCoinsCacheEntry(coinEmpty, {}) ELSE st.coins[l][o]
        usage1 == IF inserted THEN st.usage[l]
                  ELSE st.usage[l] - DynamicMemoryUsage(it.coin)
        fresh == ~possible_overwrite
        flags == it.flags \cup {DIRTY} \cup (IF fresh THEN {FRESH} ELSE {})
    IN IF ~possible_overwrite /\ ~IsSpent(it.coin)
       THEN [st |-> [st EXCEPT !.usage[l] = usage1], err |-> "OverwriteUnspent"]
       ELSE [st |-> [st EXCEPT
                       !.coins[l] = MapPut(@, o, CCoinsCacheEntry(coin, flags)),
                       !.usage[l] = usage1 + DynamicMemoryUsage(coin)],
             err |-> "none"]

\* An AddCoin without the early return for unspendable scripts.
AddCoin_StoresUnspendable(st, l, o, coin, possible_overwrite) ==
    LET inserted == o \notin DOMAIN st.coins[l]
        it == IF inserted THEN CCoinsCacheEntry(coinEmpty, {}) ELSE st.coins[l][o]
        usage1 == IF inserted THEN st.usage[l]
                  ELSE st.usage[l] - DynamicMemoryUsage(it.coin)
        fresh == ~possible_overwrite /\ DIRTY \notin it.flags
        flags == it.flags \cup {DIRTY} \cup (IF fresh THEN {FRESH} ELSE {})
    IN IF ~possible_overwrite /\ ~IsSpent(it.coin)
       THEN [st |-> [st EXCEPT !.usage[l] = usage1], err |-> "OverwriteUnspent"]
       ELSE [st |-> [st EXCEPT
                       !.coins[l] = MapPut(@, o, CCoinsCacheEntry(coin, flags)),
                       !.usage[l] = usage1 + DynamicMemoryUsage(coin)],
             err |-> "none"]

\* CCoinsViewCache::AddCoin: the stack after the call and the error thrown.
AddCoin(st, l, o, coin, possible_overwrite) ==
    IF IsUnspendable(coin) THEN [st |-> st, err |-> "none"]
    ELSE
    LET inserted == o \notin DOMAIN st.coins[l]
        it == IF inserted THEN CCoinsCacheEntry(coinEmpty, {}) ELSE st.coins[l][o]
        usage1 == IF inserted THEN st.usage[l]
                  ELSE st.usage[l] - DynamicMemoryUsage(it.coin)
        fresh == ~possible_overwrite /\ DIRTY \notin it.flags
        flags == it.flags \cup {DIRTY} \cup (IF fresh THEN {FRESH} ELSE {})
    IN IF ~possible_overwrite /\ ~IsSpent(it.coin)
       THEN [st |-> [st EXCEPT !.usage[l] = usage1], err |-> "OverwriteUnspent"]
       ELSE [st |-> [st EXCEPT
                       !.coins[l] = MapPut(@, o, CCoinsCacheEntry(coin, flags)),
                       !.usage[l] = usage1 + DynamicMemoryUsage(coin)],
             err |-> "none"]

\* CCoinsViewCache::EmplaceCoinInternalDANGER: the counter is raised by the
\* usage of the coin whatever happens next; emplace stores the coin DIRTY
\* when the map holds no entry for the outpoint and leaves the map alone
\* when it holds one.  The coin is not looked at: an unspendable or a spent
\* coin is stored like any other.
EmplaceCoinInternalDANGER(st, l, o, coin) ==
    [st EXCEPT
        !.usage[l] = @ + DynamicMemoryUsage(coin),
        !.coins[l] = IF o \in DOMAIN @ THEN @
                     ELSE MapPut(@, o, CCoinsCacheEntry(coin, {DIRTY}))]

\* SpendCoin as it would be if it looked the outpoint up in the map only,
\* without fetching it from the parent.
SpendCoin_NoFetch(st, l, o) ==
    IF o \notin DOMAIN st.coins[l]
    THEN [st |-> st, ret |-> FALSE, moveout |-> coinEmpty]
    ELSE LET it == st.coins[l][o]
             usage1 == st.usage[l] - DynamicMemoryUsage(it.coin)
         IN [st |-> IF FRESH \in it.flags
                    THEN [st EXCEPT !.coins[l] = MapErase(@, o),
                                    !.usage[l] = usage1]
                    ELSE [st EXCEPT
                            !.coins[l] = MapPut(@, o,
                                CCoinsCacheEntry(coinEmpty, it.flags \cup {DIRTY})),
                            !.usage[l] = usage1],
             ret |-> TRUE,
             moveout |-> it.coin]

\* SpendCoin as it would be if it kept a FRESH entry as a spent DIRTY one
\* instead of erasing it.
SpendCoin_KeepsFresh(st, l, o) ==
    LET f == FetchCoin(st, l, o) IN
    IF ~f.found THEN [st |-> f.st, ret |-> FALSE, moveout |-> coinEmpty]
    ELSE LET it == f.st.coins[l][o]
             usage1 == f.st.usage[l] - DynamicMemoryUsage(it.coin)
         IN [st |-> [f.st EXCEPT
                       !.coins[l] = MapPut(@, o,
                           CCoinsCacheEntry(coinEmpty, it.flags \cup {DIRTY})),
                       !.usage[l] = usage1],
             ret |-> TRUE,
             moveout |-> it.coin]

\* SpendCoin as it would be if it marked an entry that is not FRESH as
\* DIRTY without clearing its coin.
SpendCoin_KeepsCoin(st, l, o) ==
    LET f == FetchCoin(st, l, o) IN
    IF ~f.found THEN [st |-> f.st, ret |-> FALSE, moveout |-> coinEmpty]
    ELSE LET it == f.st.coins[l][o]
             usage1 == f.st.usage[l] - DynamicMemoryUsage(it.coin)
         IN [st |-> IF FRESH \in it.flags
                    THEN [f.st EXCEPT !.coins[l] = MapErase(@, o),
                                      !.usage[l] = usage1]
                    ELSE [f.st EXCEPT
                            !.coins[l] = MapPut(@, o,
                                CCoinsCacheEntry(it.coin, it.flags \cup {DIRTY}))],
             ret |-> TRUE,
             moveout |-> it.coin]

\* A SpendCoin that answers false for an entry that is already spent.
SpendCoin_RefusesSpent(st, l, o) ==
    LET f == FetchCoin(st, l, o) IN
    IF ~f.found \/ IsSpent(f.st.coins[l][o].coin)
    THEN [st |-> f.st, ret |-> FALSE, moveout |-> coinEmpty]
    ELSE LET it == f.st.coins[l][o]
             usage1 == f.st.usage[l] - DynamicMemoryUsage(it.coin)
         IN [st |-> IF FRESH \in it.flags
                    THEN [f.st EXCEPT !.coins[l] = MapErase(@, o),
                                      !.usage[l] = usage1]
                    ELSE [f.st EXCEPT
                            !.coins[l] = MapPut(@, o,
                                CCoinsCacheEntry(coinEmpty, it.flags \cup {DIRTY})),
                            !.usage[l] = usage1],
             ret |-> TRUE,
             moveout |-> it.coin]

\* CCoinsViewCache::SpendCoin: the stack after the call, the return value
\* and the coin handed to moveout.
SpendCoin(st, l, o) ==
    LET f == FetchCoin(st, l, o) IN
    IF ~f.found THEN [st |-> f.st, ret |-> FALSE, moveout |-> coinEmpty]
    ELSE LET it == f.st.coins[l][o]
             usage1 == f.st.usage[l] - DynamicMemoryUsage(it.coin)
         IN [st |-> IF FRESH \in it.flags
                    THEN [f.st EXCEPT !.coins[l] = MapErase(@, o),
                                      !.usage[l] = usage1]
                    ELSE [f.st EXCEPT
                            !.coins[l] = MapPut(@, o,
                                CCoinsCacheEntry(coinEmpty, it.flags \cup {DIRTY})),
                            !.usage[l] = usage1],
             ret |-> TRUE,
             moveout |-> it.coin]

\* Uncache as it would be if it removed the entry whatever its flags.
Uncache_RemovesAny(st, l, o) ==
    IF o \in DOMAIN st.coins[l]
    THEN [st EXCEPT !.coins[l] = MapErase(@, o),
                    !.usage[l] = @ - DynamicMemoryUsage(st.coins[l][o].coin)]
    ELSE st

\* CCoinsViewCache::Uncache.
Uncache(st, l, o) ==
    IF o \in DOMAIN st.coins[l] /\ st.coins[l][o].flags = {}
    THEN [st EXCEPT !.coins[l] = MapErase(@, o),
                    !.usage[l] = @ - DynamicMemoryUsage(st.coins[l][o].coin)]
    ELSE st

\* GetBestBlock on view v: the backing store's marker for v = 0, else
\* CCoinsViewCache::GetBestBlock, which caches the parent's answer.
RECURSIVE ViewGetBestBlock(_, _)
ViewGetBestBlock(st, v) ==
    IF v = 0 THEN [st |-> st, ret |-> st.dbBest]
    ELSE IF st.hash[v] = NullHash
         THEN LET r == ViewGetBestBlock(st, v - 1)
              IN [st |-> [r.st EXCEPT !.hash[v] = r.ret], ret |-> r.ret]
         ELSE [st |-> st, ret |-> st.hash[v]]

\* CCoinsViewCache::SetBestBlock.
SetBestBlock(st, l, hashBlockIn) == [st EXCEPT !.hash[l] = hashBlockIn]

(* ------------------------------------------------------------------ *)
(* AddCoins                                                           *)
(* ------------------------------------------------------------------ *)

COutPoint(txid, i) == <<txid, i>>

\* Coin(out, nHeight, fCoinBase): the output with the height and the
\* coinbase mark of the transaction that created it.
Coin(out, nHeightIn, fCoinBaseIn) ==
    [nValue |-> out.nValue, scriptSize |-> out.scriptSize, opReturn |-> out.opReturn,
     nHeight |-> nHeightIn, fCoinBase |-> fCoinBaseIn]

\* The claimed choice: a coinbase always passes true.
Overwrite_CoinbaseAlways(st, l, o, fCoinbase, check_for_overwrite) ==
    IF check_for_overwrite
    THEN [st |-> HaveCoin(st, l, o).st, ret |-> fCoinbase \/ HaveCoin(st, l, o).ret]
    ELSE [st |-> st, ret |-> fCoinbase]

\* A coinbase added without the overwrite check passes false, as any other
\* transaction does.
Overwrite_CoinbaseNoOverwrite(st, l, o, fCoinbase, check_for_overwrite) ==
    IF check_for_overwrite THEN HaveCoin(st, l, o)
    ELSE [st |-> st, ret |-> FALSE]

\* The possible_overwrite that AddCoins passes for outpoint o, and the stack
\* after the HaveCoin call it may make for it.
Overwrite(st, l, o, fCoinbase, check_for_overwrite) ==
    IF check_for_overwrite THEN HaveCoin(st, l, o)
    ELSE [st |-> st, ret |-> fCoinbase]

\* The outcome rest of the later iterations, with call made before them.
AfterCall(call, rest) ==
    [st |-> rest.st, err |-> rest.err, calls |-> <<call>> \o rest.calls]

\* The loop of AddCoins from output i on: the stack after it, the error
\* that ended it, and the AddCoin calls it made.
RECURSIVE AddCoinsFrom(_, _, _, _, _, _)
AddCoinsFrom(st, l, tx, nHeight, check_for_overwrite, i) ==
    IF i >= Len(tx.vout) THEN [st |-> st, err |-> "none", calls |-> << >>]
    ELSE LET fCoinbase == tx.fCoinBase
             o == COutPoint(tx.txid, i)
             overwrite == Overwrite(st, l, o, fCoinbase, check_for_overwrite)
             coin == Coin(tx.vout[i + 1], nHeight, fCoinbase)
             call == [o |-> o, coin |-> coin, possible_overwrite |-> overwrite.ret]
             r == AddCoin(overwrite.st, l, o, coin, overwrite.ret)
         IN IF r.err # "none"
            THEN [st |-> r.st, err |-> r.err, calls |-> <<call>>]
            ELSE AfterCall(call, AddCoinsFrom(r.st, l, tx, nHeight,
                                              check_for_overwrite, i + 1))

AddCoins(st, l, tx, nHeight, check_for_overwrite) ==
    AddCoinsFrom(st, l, tx, nHeight, check_for_overwrite, 0)

(* ------------------------------------------------------------------ *)
(* Names                                                              *)
(* ------------------------------------------------------------------ *)

\* CNameCache: the name records set, the names deleted, the history stacks
\* set, and the changes to the expire index (<<height, name>> -> added or
\* removed).
EmptyNameCache ==
    [entries |-> EmptyMap, deleted |-> {}, history |-> EmptyMap,
     expireIndex |-> EmptyMap]

empty(nc) == DOMAIN nc.entries = {} /\ nc.deleted = {}

isDeleted(nc, name) == name \in nc.deleted

get(nc, name) ==
    IF name \in DOMAIN nc.entries
    THEN [ret |-> TRUE, data |-> nc.entries[name]]
    ELSE [ret |-> FALSE, data |-> NameData1]

set(nc, name, data) ==
    [nc EXCEPT !.deleted = @ \ {name}, !.entries = MapPut(@, name, data)]

remove(nc, name) ==
    [nc EXCEPT !.entries = MapErase(@, name), !.deleted = @ \cup {name}]

getHistory(nc, name) ==
    IF name \in DOMAIN nc.history
    THEN [ret |-> TRUE, history |-> nc.history[name]]
    ELSE [ret |-> FALSE, history |-> << >>]

setHistory(nc, name, history) ==
    [nc EXCEPT !.history = MapPut(@, name, history)]

addExpireIndex(nc, name, height) ==
    [nc EXCEPT !.expireIndex = MapPut(@, <<height, name>>, TRUE)]

removeExpireIndex(nc, name, height) ==
    [nc EXCEPT !.expireIndex = MapPut(@, <<height, name>>, FALSE)]

updateNamesForHeight(nc, nHeight, names) ==
    (names \cup {e[2] : e \in {x \in DOMAIN nc.expireIndex :
                                 x[1] = nHeight /\ nc.expireIndex[x]}})
        \ {e[2] : e \in {x \in DOMAIN nc.expireIndex :
                           x[1] = nHeight /\ ~nc.expireIndex[x]}}

\* CNameCache::apply: the changes of cache laid over those of nc.
apply(nc, cache) ==
    [entries |-> [name \in ((DOMAIN nc.entries) \ cache.deleted)
                                \cup DOMAIN cache.entries |->
                    IF name \in DOMAIN cache.entries THEN cache.entries[name]
                    ELSE nc.entries[name]],
     deleted |-> (nc.deleted \ DOMAIN cache.entries) \cup cache.deleted,
     history |-> [name \in (DOMAIN nc.history) \cup DOMAIN cache.history |->
                    IF name \in DOMAIN cache.history THEN cache.history[name]
                    ELSE nc.history[name]],
     expireIndex |-> [e \in (DOMAIN nc.expireIndex) \cup DOMAIN cache.expireIndex |->
                        IF e \in DOMAIN cache.expireIndex THEN cache.expireIndex[e]
                        ELSE nc.expireIndex[e]]]

\* The backing store's name records, history stacks and expire index
\* (a set of <<height, name>>).
EmptyDbNames == [entries |-> EmptyMap, history |-> EmptyMap, expire |-> {}]

DbGetName(st, name) ==
    IF name \in DOMAIN st.dbNames.entries
    THEN [ret |-> TRUE, data |-> st.dbNames.entries[name]]
    ELSE [ret |-> FALSE, data |-> NameData1]

DbGetNameHistory(st, name) ==
    IF name \in DOMAIN st.dbNames.history
    THEN [ret |-> TRUE, history |-> st.dbNames.history[name]]
    ELSE [ret |-> FALSE, history |-> << >>]

DbGetNamesForHeight(st, nHeight) ==
    [ret |-> TRUE, names |-> {e[2] : e \in {x \in st.dbNames.expire : x[1] = nHeight}}]

\* The backing store taking the name changes of a batch: records set are
\* written, names deleted are erased, a history stack is written or, when
\* empty, erased, expire entries are written or erased.
DbWriteNames(dbn, names) ==
    [entries |-> [name \in ((DOMAIN dbn.entries) \ names.deleted)
                                \cup DOMAIN names.entries |->
                    IF name \in DOMAIN names.entries THEN names.entries[name]
                    ELSE dbn.entries[name]],
     history |-> [name \in {x \in (DOMAIN dbn.history) \cup DOMAIN names.history :
                              IF x \in DOMAIN names.history
                              THEN names.history[x] # << >> ELSE TRUE} |->
                    IF name \in DOMAIN names.history THEN names.history[name]
                    ELSE dbn.history[name]],
     expire |-> (dbn.expire \cup {e \in DOMAIN names.expireIndex : names.expireIndex[e]})
                   \ {e \in DOMAIN names.expireIndex : ~names.expireIndex[e]}]

\* GetName on view v: the backing store for v = 0, else
\* CCoinsViewCache::GetName, which does not cache what the parent answers.
RECURSIVE ViewGetName(_, _, _)
ViewGetName(st, v, name) ==
    IF v = 0 THEN DbGetName(st, name)
    ELSE IF isDeleted(st.names[v], name) THEN [ret |-> FALSE, data |-> NameData1]
    ELSE IF get(st.names[v], name).ret THEN get(st.names[v], name)
    ELSE ViewGetName(st, v - 1, name)

\* GetNameHistory on view v.
RECURSIVE ViewGetNameHistory(_, _, _)
ViewGetNameHistory(st, v, name) ==
    IF v = 0 THEN DbGetNameHistory(st, name)
    ELSE IF getHistory(st.names[v], name).ret THEN getHistory(st.names[v], name)
    ELSE ViewGetNameHistory(st, v - 1, name)

\* GetNamesForHeight on view v.
RECURSIVE ViewGetNamesForHeight(_, _, _)
ViewGetNamesForHeight(st, v, nHeight) ==
    IF v = 0 THEN DbGetNamesForHeight(st, nHeight)
    ELSE LET r == ViewGetNamesForHeight(st, v - 1, nHeight) IN
         IF ~r.ret THEN r
         ELSE [ret |-> TRUE,
               names |-> updateNamesForHeight(st.names[v], nHeight, r.names)]

\* CNameHistory::pop and push on a stack held as a sequence (top last).
HistoryPopOK(history, data) == history # << >> /\ history[Len(history)] = data
HistoryPop(history) == SubSeq(history, 1, Len(history) - 1)
HistoryPush(history, data) == Append(history, data)

\* A SetName that leaves the expire entry of the record it replaces.
SetName_KeepsOldExpire(st, l, name, data, undo) ==
    LET old == ViewGetName(st, l, name)
        h == ViewGetNameHistory(st, l, name)
        nc2 == IF ~old.ret \/ ~st.fNameHistory THEN st.names[l]
               ELSE setHistory(st.names[l], name,
                               IF undo THEN HistoryPop(h.history)
                               ELSE HistoryPush(h.history, old.data))
        nc3 == addExpireIndex(set(nc2, name, data), name, data.nHeight)
    IN IF \/ ~old.ret /\ undo
          \/ old.ret /\ st.fNameHistory /\ undo /\ ~HistoryPopOK(h.history, data)
       THEN [st |-> st, err |-> "assert"]
       ELSE [st |-> [st EXCEPT !.names[l] = nc3], err |-> "none"]

\* CCoinsViewCache::SetName: the stack after the call and the error, which
\* is "assert" when an assertion of the call fails.
SetName(st, l, name, data, undo) ==
    LET old == ViewGetName(st, l, name)
        h == ViewGetNameHistory(st, l, name)
        nc1 == removeExpireIndex(st.names[l], name, old.data.nHeight)
        nc2 == IF ~old.ret THEN st.names[l]
               ELSE IF ~st.fNameHistory THEN nc1
               ELSE setHistory(nc1, name,
                               IF undo THEN HistoryPop(h.history)
                               ELSE HistoryPush(h.history, old.data))
        nc3 == addExpireIndex(set(nc2, name, data), name, data.nHeight)
    IN IF \/ ~old.ret /\ undo
          \/ old.ret /\ st.fNameHistory /\ undo /\ ~HistoryPopOK(h.history, data)
       THEN [st |-> st, err |-> "assert"]
       ELSE [st |-> [st EXCEPT !.names[l] = nc3], err |-> "none"]

\* A DeleteName that drops the cached record without leaving a tombstone.
DeleteName_NoTombstone(st, l, name) ==
    LET old == ViewGetName(st, l, name)
        h == ViewGetNameHistory(st, l, name)
        nc1 == removeExpireIndex(st.names[l], name, old.data.nHeight)
    IN IF \/ ~old.ret
          \/ st.fNameHistory /\ h.ret /\ h.history # << >>
       THEN [st |-> st, err |-> "assert"]
       ELSE [st |-> [st EXCEPT !.names[l].entries = MapErase(nc1.entries, name),
                               !.names[l].expireIndex = nc1.expireIndex],
             err |-> "none"]

\* A DeleteName that leaves the expire entry of the record it deletes.
DeleteName_KeepsExpire(st, l, name) ==
    LET old == ViewGetName(st, l, name)
        h == ViewGetNameHistory(st, l, name)
    IN IF \/ ~old.ret
          \/ st.fNameHistory /\ h.ret /\ h.history # << >>
       THEN [st |-> st, err |-> "assert"]
       ELSE [st |-> [st EXCEPT !.names[l] = remove(st.names[l], name)],
             err |-> "none"]

\* CCoinsViewCache::DeleteName.
DeleteName(st, l, name) ==
    LET old == ViewGetName(st, l, name)
        h == ViewGetNameHistory(st, l, name)
        nc1 == removeExpireIndex(st.names[l], name, old.data.nHeight)
    IN IF \/ ~old.ret
          \/ st.fNameHistory /\ h.ret /\ h.history # << >>
       THEN [st |-> st, err |-> "assert"]
       ELSE [st |-> [st EXCEPT !.names[l] = remove(nc1, name)], err |-> "none"]

(* ------------------------------------------------------------------ *)
(* BatchWrite and Flush                                               *)
(* ------------------------------------------------------------------ *)

\* The orders in which a std::unordered_map with key set S can be iterated.
IterationOrders(S) ==
    {f \in [1..Cardinality(S) -> S] : \A i, j \in DOMAIN f : f[i] = f[j] => i = j}

\* The loop body of BatchWrite as it would be if the modified entry took
\* the child's FRESH flag along with its coin.
BatchWriteEntry_PropagatesFresh(us, o, it) ==
    IF DIRTY \notin it.flags THEN [us EXCEPT !.err = "none"]
    ELSE IF o \notin DOMAIN us.coins
    THEN IF ~(FRESH \in it.flags /\ IsSpent(it.coin))
         THEN [coins |-> MapPut(us.coins, o,
                    CCoinsCacheEntry(it.coin,
                        {DIRTY} \cup (IF FRESH \in it.flags THEN {FRESH} ELSE {}))),
               usage |-> us.usage + DynamicMemoryUsage(it.coin),
               err |-> "none"]
         ELSE [us EXCEPT !.err = "none"]
    ELSE LET itUs == us.coins[o] IN
         IF FRESH \in it.flags /\ ~IsSpent(itUs.coin)
         THEN [us EXCEPT !.err = "FreshAppliedToExisting"]
         ELSE IF FRESH \in itUs.flags /\ IsSpent(it.coin)
         THEN [coins |-> MapErase(us.coins, o),
               usage |-> us.usage - DynamicMemoryUsage(itUs.coin),
               err |-> "none"]
         ELSE [coins |-> MapPut(us.coins, o,
                    CCoinsCacheEntry(it.coin, itUs.flags \cup it.flags)),
               usage |-> (us.usage - DynamicMemoryUsage(itUs.coin))
                            + DynamicMemoryUsage(it.coin),
               err |-> "none"]

\* The loop body of BatchWrite as it would be without the check for a FRESH
\* child entry over an unspent coin.
BatchWriteEntry_NoFreshCheck(us, o, it) ==
    IF DIRTY \notin it.flags THEN [us EXCEPT !.err = "none"]
    ELSE IF o \notin DOMAIN us.coins
    THEN IF ~(FRESH \in it.flags /\ IsSpent(it.coin))
         THEN [coins |-> MapPut(us.coins, o,
                    CCoinsCacheEntry(it.coin,
                        {DIRTY} \cup (IF FRESH \in it.flags THEN {FRESH} ELSE {}))),
               usage |-> us.usage + DynamicMemoryUsage(it.coin),
               err |-> "none"]
         ELSE [us EXCEPT !.err = "none"]
    ELSE LET itUs == us.coins[o] IN
         IF FRESH \in itUs.flags /\ IsSpent(it.coin)
         THEN [coins |-> MapErase(us.coins, o),
               usage |-> us.usage - DynamicMemoryUsage(itUs.coin),
               err |-> "none"]
         ELSE [coins |-> MapPut(us.coins, o,
                    CCoinsCacheEntry(it.coin, itUs.flags \cup {DIRTY})),
               usage |-> (us.usage - DynamicMemoryUsage(itUs.coin))
                            + DynamicMemoryUsage(it.coin),
               err |-> "none"]

\* The loop body of BatchWrite as it would be if it erased the receiving
\* entry whenever the child's coin is spent, FRESH or not.
BatchWriteEntry_ErasesSpent(us, o, it) ==
    IF DIRTY \notin it.flags THEN [us EXCEPT !.err = "none"]
    ELSE IF o \notin DOMAIN us.coins
    THEN IF ~(FRESH \in it.flags /\ IsSpent(it.coin))
         THEN [coins |-> MapPut(us.coins, o,
                    CCoinsCacheEntry(it.coin,
                        {DIRTY} \cup (IF FRESH \in it.flags THEN {FRESH} ELSE {}))),
               usage |-> us.usage + DynamicMemoryUsage(it.coin),
               err |-> "none"]
         ELSE [us EXCEPT !.err = "none"]
    ELSE LET itUs == us.coins[o] IN
         IF FRESH \in it.flags /\ ~IsSpent(itUs.coin)
         THEN [us EXCEPT !.err = "FreshAppliedToExisting"]
         ELSE IF IsSpent(it.coin)
         THEN [coins |-> MapErase(us.coins, o),
               usage |-> us.usage - DynamicMemoryUsage(itUs.coin),
               err |-> "none"]
         ELSE [coins |-> MapPut(us.coins, o,
                    CCoinsCacheEntry(it.coin, itUs.flags \cup {DIRTY})),
               usage |-> (us.usage - DynamicMemoryUsage(itUs.coin))
                            + DynamicMemoryUsage(it.coin),
               err |-> "none"]

\* A BatchWriteEntry without the branch that erases a FRESH receiving
\* entry when the child's coin is spent.
BatchWriteEntry_NoCollapse(us, o, it) ==
    IF DIRTY \notin it.flags THEN [us EXCEPT !.err = "none"]
    ELSE IF o \notin DOMAIN us.coins
    THEN IF ~(FRESH \in it.flags /\ IsSpent(it.coin))
         THEN [coins |-> MapPut(us.coins, o,
                    CCoinsCacheEntry(it.coin,
                        {DIRTY} \cup (IF FRESH \in it.flags THEN {FRESH} ELSE {}))),
               usage |-> us.usage + DynamicMemoryUsage(it.coin),
               err |-> "none"]
         ELSE [us EXCEPT !.err = "none"]
    ELSE LET itUs == us.coins[o] IN
         IF FRESH \in it.flags /\ ~IsSpent(itUs.coin)
         THEN [us EXCEPT !.err = "FreshAppliedToExisting"]
         ELSE [coins |-> MapPut(us.coins, o,
                    CCoinsCacheEntry(it.coin, itUs.flags \cup {DIRTY})),
               usage |-> (us.usage - DynamicMemoryUsage(itUs.coin))
                            + DynamicMemoryUsage(it.coin),
               err |-> "none"]

\* One iteration of the loop of CCoinsViewCache::BatchWrite for the child
\* entry it at outpoint o; us is the receiving cache's map and counter.
BatchWriteEntry(us, o, it) ==
    IF DIRTY \notin it.flags THEN [us EXCEPT !.err = "none"]
    ELSE IF o \notin DOMAIN us.coins
    THEN IF ~(FRESH \in it.flags /\ IsSpent(it.coin))
         THEN [coins |-> MapPut(us.coins, o,
                    CCoinsCacheEntry(it.coin,
                        {DIRTY} \cup (IF FRESH \in it.flags THEN {FRESH} ELSE {}))),
               usage |-> us.usage + DynamicMemoryUsage(it.coin),
               err |-> "none"]
         ELSE [us EXCEPT !.err = "none"]
    ELSE LET itUs == us.coins[o] IN
         IF FRESH \in it.flags /\ ~IsSpent(itUs.coin)
         THEN [us EXCEPT !.err = "FreshAppliedToExisting"]
         ELSE IF FRESH \in itUs.flags /\ IsSpent(it.coin)
         THEN [coins |-> MapErase(us.coins, o),
               usage |-> us.usage - DynamicMemoryUsage(itUs.coin),
               err |-> "none"]
         ELSE [coins |-> MapPut(us.coins, o,
                    CCoinsCacheEntry(it.coin, itUs.flags \cup {DIRTY})),
               usage |-> (us.usage - DynamicMemoryUsage(itUs.coin))
                            + DynamicMemoryUsage(it.coin),
               err |-> "none"]

\* The loop of CCoinsViewCache::BatchWrite from position i of the iteration
\* order on: every entry visited without a throw is erased from mapCoins.
RECURSIVE BatchWriteLoop(_, _, _, _)
BatchWriteLoop(us, mapCoins, order, i) ==
    IF i > Len(order) THEN [us |-> us, mapCoins |-> mapCoins]
    ELSE LET r == BatchWriteEntry(us, order[i], mapCoins[order[i]]) IN
         IF r.err # "none"
         THEN [us |-> r, mapCoins |-> mapCoins]
         ELSE BatchWriteLoop(r, MapErase(mapCoins, order[i]), order, i + 1)

\* A BatchWrite that merges the batch but leaves hashBlock as it was.
BatchWrite_KeepsHash(st, l, mapCoins, order, hashBlockIn, names) ==
    LET r == BatchWriteLoop([coins |-> st.coins[l], usage |-> st.usage[l],
                             err |-> "none"], mapCoins, order, 1)
    IN IF r.us.err # "none"
       THEN [st |-> [st EXCEPT !.coins[l] = r.us.coins, !.usage[l] = r.us.usage],
             mapCoins |-> r.mapCoins, ret |-> FALSE, err |-> r.us.err]
       ELSE [st |-> [st EXCEPT !.coins[l] = r.us.coins, !.usage[l] = r.us.usage,
                               !.names[l] = apply(@, names)],
             mapCoins |-> r.mapCoins, ret |-> TRUE, err |-> "none"]

\* CCoinsViewCache::BatchWrite on cache l: the stack after the call, the
\* caller's map as the call leaves it, the return value and the error.
BatchWrite(st, l, mapCoins, order, hashBlockIn, names) ==
    LET r == BatchWriteLoop([coins |-> st.coins[l], usage |-> st.usage[l],
                             err |-> "none"], mapCoins, order, 1)
    IN IF r.us.err # "none"
       THEN [st |-> [st EXCEPT !.coins[l] = r.us.coins, !.usage[l] = r.us.usage],
             mapCoins |-> r.mapCoins, ret |-> FALSE, err |-> r.us.err]
       ELSE [st |-> [st EXCEPT !.coins[l] = r.us.coins, !.usage[l] = r.us.usage,
                               !.hash[l] = hashBlockIn,
                               !.names[l] = apply(@, names)],
             mapCoins |-> r.mapCoins, ret |-> TRUE, err |-> "none"]

\* What the backing store holds for outpoint o after taking a batch: a
\* DIRTY live coin is written, a DIRTY spent coin is deleted or, when the
\* store keeps spent records, written as a spent coin.
DbWriteCoin(db, mapCoins, o, keepSpent) ==
    IF o \in DOMAIN mapCoins /\ DIRTY \in mapCoins[o].flags
    THEN IF IsSpent(mapCoins[o].coin) /\ ~keepSpent THEN {}
         ELSE {mapCoins[o].coin}
    ELSE IF o \in DOMAIN db THEN {db[o]} ELSE {}

\* The backing store's BatchWrite: atomic, it applies the whole batch and
\* returns true, or applies nothing and returns false.  It fails when the
\* best-block hash of the batch is not set.
DbBatchWrite(st, mapCoins, hashBlockIn, names, ok, keepSpent) ==
    IF ok /\ hashBlockIn # NullHash
    THEN LET held == {o \in (DOMAIN st.db) \cup (DOMAIN mapCoins) :
                        DbWriteCoin(st.db, mapCoins, o, keepSpent) # {}}
         IN [st |-> [st EXCEPT
                       !.db = [o \in held |->
                                CHOOSE c \in DbWriteCoin(st.db, mapCoins, o, keepSpent) : TRUE],
                       !.dbBest = hashBlockIn,
                       !.dbNames = DbWriteNames(@, names)],
             mapCoins |-> mapCoins, ret |-> TRUE, err |-> "none"]
    ELSE [st |-> st, mapCoins |-> mapCoins, ret |-> FALSE, err |-> "none"]

\* base->BatchWrite as cache l+1 calls it on its parent, view v.
ViewBatchWrite(st, v, mapCoins, order, hashBlockIn, names, ok, keepSpent) ==
    IF v = 0 THEN DbBatchWrite(st, mapCoins, hashBlockIn, names, ok, keepSpent)
    ELSE BatchWrite(st, v, mapCoins, order, hashBlockIn, names)

\* Flush as it would be if it cleared the cache without handing its map to
\* the parent.
Flush_ClearsWithoutWriting(st, l, order, ok, keepSpent) ==
    IF st.hash[l] = NullHash /\ DOMAIN st.coins[l] = {} /\ empty(st.names[l])
    THEN [st |-> st, ret |-> TRUE, err |-> "none"]
    ELSE [st |-> [st EXCEPT !.coins[l] = EmptyMap, !.usage[l] = 0,
                            !.names[l] = EmptyNameCache],
          ret |-> TRUE, err |-> "none"]

\* A Flush without the no-op path: it always calls BatchWrite on the parent.
Flush_NoTrivialPath(st, l, order, ok, keepSpent) ==
    LET r == ViewBatchWrite(st, l - 1, st.coins[l], order, st.hash[l],
                            st.names[l], ok, keepSpent)
    IN IF r.err # "none"
       THEN [st |-> [r.st EXCEPT !.coins[l] = r.mapCoins],
             ret |-> FALSE, err |-> r.err]
       ELSE [st |-> [r.st EXCEPT !.coins[l] = EmptyMap, !.usage[l] = 0,
                                 !.names[l] = EmptyNameCache],
             ret |-> r.ret, err |-> "none"]

\* CCoinsViewCache::Flush on cache l.  A logic_error thrown by the parent's
\* BatchWrite leaves Flush before it clears anything.
Flush(st, l, order, ok, keepSpent) ==
    IF st.hash[l] = NullHash /\ DOMAIN st.coins[l] = {} /\ empty(st.names[l])
    THEN [st |-> st, ret |-> TRUE, err |-> "none"]
    ELSE LET r == ViewBatchWrite(st, l - 1, st.coins[l], order, st.hash[l],
                                 st.names[l], ok, keepSpent)
         IN IF r.err # "none"
            THEN [st |-> [r.st EXCEPT !.coins[l] = r.mapCoins],
                  ret |-> FALSE, err |-> r.err]
            ELSE [st |-> [r.st EXCEPT !.coins[l] = EmptyMap, !.usage[l] = 0,
                                      !.names[l] = EmptyNameCache],
                  ret |-> r.ret, err |-> "none"]

(* ------------------------------------------------------------------ *)
(* Derived quantities                                                 *)
(* ------------------------------------------------------------------ *)

\* Sum of DynamicMemoryUsage over the coins of a map.
RECURSIVE CoinsUsage(_)
CoinsUsage(m) ==
    IF DOMAIN m = {} THEN 0
    ELSE LET o == CHOOSE x \in DOMAIN m : TRUE
         IN DynamicMemoryUsage(m[o].coin) + CoinsUsage(MapErase(m, o))

\* How far the counter of cache l is from the usage of the coins it holds.
Drift(l) == cachedCoinsUsage[l] - CoinsUsage(cacheCoins[l])

Abs(n) == IF n < 0 THEN -n ELSE n

\* Guard of the calls that move the counter of a cache off the usage of the
\* coins it holds: they are explored while every counter is off by fewer
\* than MaxDriftCoins large coins.
MayDrift == \A l \in Caches : Abs(Drift(l)) < MaxDriftCoins * DynamicMemoryUsage(CoinLarge)

\* Guard of the calls that end in a logic_error.
MayThrow == MayDrift

(* ------------------------------------------------------------------ *)
(* Initial state and actions                                          *)
(* ------------------------------------------------------------------ *)

\* The record of a call: its arguments, its outcome, and pre, the map of
\* the called cache as the call found it.
Call(op, l, o, coin, po, ret, err, pre) ==
    [op |-> op, l |-> l, o |-> o, coin |-> coin, po |-> po, ret |-> ret,
     err |-> err, pre |-> pre]

\* No read-error callback is registered and none has run.
NoErrorCatcher == m_err_callbacks = << >> /\ called = << >>

\* The stores the backing database can hold when the stack is built.
DbStates ==
    UNION {[S -> LiveCoins \cup {coinEmpty}] : S \in SUBSET OutPoints}

Init ==
    /\ dbCoins \in DbStates
    /\ dbBestBlock \in BlockHashes \cup {NullHash}
    /\ cacheCoins = [l \in Caches |-> EmptyMap]
    /\ cachedCoinsUsage = [l \in Caches |-> 0]
    /\ hashBlock = [l \in Caches |-> NullHash]
    /\ cacheNames = [l \in Caches |-> EmptyNameCache]
    /\ dbNames = EmptyDbNames
    /\ fNameHistory = TRUE
    /\ NoErrorCatcher
    /\ last = Call("init", 0, "-", coinEmpty, FALSE, TRUE, "none", EmptyMap)

\* The stack st becomes the next state.
Becomes(st) ==
    /\ dbCoins' = st.db
    /\ dbBestBlock' = st.dbBest
    /\ cacheCoins' = st.coins
    /\ cachedCoinsUsage' = st.usage
    /\ hashBlock' = st.hash
    /\ cacheNames' = st.names
    /\ dbNames' = st.dbNames
    /\ fNameHistory' = st.fNameHistory
    /\ UNCHANGED <<m_err_callbacks, called>>

CallGetCoin(l, o) ==
    LET r == ViewGetCoin(Stack, l, o) IN
    /\ Becomes(r.st)
    /\ last' = Call("GetCoin", l, o, r.coin, FALSE, r.ret, "none", cacheCoins[l])

CallHaveCoin(l, o) ==
    LET r == HaveCoin(Stack, l, o) IN
    /\ Becomes(r.st)
    /\ last' = Call("HaveCoin", l, o, coinEmpty, FALSE, r.ret, "none", cacheCoins[l])

CallAccessCoin(l, o) ==
    LET r == AccessCoin(Stack, l, o) IN
    /\ Becomes(r.st)
    /\ last' = Call("AccessCoin", l, o, r.coin, FALSE, TRUE, "none", cacheCoins[l])

CallHaveCoinInCache(l, o) ==
    /\ Becomes(Stack)
    /\ last' = Call("HaveCoinInCache", l, o, coinEmpty, FALSE,
                    HaveCoinInCache(Stack, l, o), "none", cacheCoins[l])

CallAddCoin(l, o, coin, possible_overwrite) ==
    LET r == AddCoin(Stack, l, o, coin, possible_overwrite) IN
    /\ r.err # "none" => MayThrow
    /\ Becomes(r.st)
    /\ last' = Call("AddCoin", l, o, coin, possible_overwrite, r.err = "none",
                    r.err, cacheCoins[l])

\* EmplaceCoinInternalDANGER on cache l.  Over an entry the map already
\* holds the call moves the counter off the usage of the coins held, and is
\* explored while MayDrift allows it.
CallEmplaceCoinInternalDANGER(l, o, coin) ==
    /\ o \in DOMAIN cacheCoins[l] => MayDrift
    /\ Becomes(EmplaceCoinInternalDANGER(Stack, l, o, coin))
    /\ last' = Call("EmplaceCoinInternalDANGER", l, o, coin, TRUE, TRUE, "none",
                    cacheCoins[l])

CallSpendCoin(l, o, moveout) ==
    LET r == SpendCoin(Stack, l, o) IN
    /\ Becomes(r.st)
    /\ last' = Call("SpendCoin", l, o, IF moveout THEN r.moveout ELSE coinEmpty,
                    moveout, r.ret, "none", cacheCoins[l])

CallUncache(l, o) ==
    /\ Becomes(Uncache(Stack, l, o))
    /\ last' = Call("Uncache", l, o, coinEmpty, FALSE, TRUE, "none", cacheCoins[l])

CallGetBestBlock(l) ==
    LET r == ViewGetBestBlock(Stack, l) IN
    /\ Becomes(r.st)
    /\ last' = Call("GetBestBlock", l, r.ret, coinEmpty, FALSE, TRUE, "none",
                    cacheCoins[l])

CallSetBestBlock(l, hashBlockIn) ==
    /\ Becomes(SetBestBlock(Stack, l, hashBlockIn))
    /\ last' = Call("SetBestBlock", l, hashBlockIn, coinEmpty, FALSE, TRUE, "none",
                    cacheCoins[l])

CallFlush(l) ==
    \E order \in IterationOrders(DOMAIN cacheCoins[l]), ok \in BOOLEAN, keepSpent \in BOOLEAN :
        LET r == Flush(Stack, l, order, ok, keepSpent) IN
        /\ r.err # "none" => MayThrow
        /\ Becomes(r.st)
        /\ last' = Call("Flush", l, "-", coinEmpty, FALSE, r.ret, r.err, cacheCoins[l])

CoinArgs == LiveCoins \cup {CoinUnspendable}

\* AddCoins on cache l; the record keeps the transaction, the AddCoin calls
\* made and check_for_overwrite.
CallAddCoins(l, tx, nHeight, check_for_overwrite) ==
    LET r == AddCoins(Stack, l, tx, nHeight, check_for_overwrite) IN
    /\ r.err # "none" => MayThrow
    /\ Becomes(r.st)
    /\ last' = Call("AddCoins", l, tx, r.calls, check_for_overwrite, r.err = "none",
                    r.err, cacheCoins[l])

\* A process that failed an assertion makes no further call.
Alive == last.err # "assert"

\* The longest history stack held anywhere in the stack st.
HistoryLengths(st) ==
    {Len(st.dbNames.history[n]) : n \in DOMAIN st.dbNames.history}
        \cup UNION {{Len(st.names[l].history[n]) : n \in DOMAIN st.names[l].history} :
                       l \in Caches}

CallGetName(l, name) ==
    LET r == ViewGetName(Stack, l, name) IN
    /\ Alive
    /\ Becomes(Stack)
    /\ last' = Call("GetName", l, name, IF r.ret THEN r.data ELSE coinEmpty, FALSE,
                    r.ret, "none", cacheCoins[l])

CallGetNameHistory(l, name) ==
    LET r == ViewGetNameHistory(Stack, l, name) IN
    /\ Alive
    /\ Becomes(Stack)
    /\ last' = Call("GetNameHistory", l, name, r.history, FALSE, r.ret, "none",
                    cacheCoins[l])

CallGetNamesForHeight(l, nHeight) ==
    LET r == ViewGetNamesForHeight(Stack, l, nHeight) IN
    /\ Alive
    /\ Becomes(Stack)
    /\ last' = Call("GetNamesForHeight", l, nHeight, r.names, FALSE, r.ret, "none",
                    cacheCoins[l])

CallSetName(l, name, data, undo) ==
    LET r == SetName(Stack, l, name, data, undo) IN
    /\ Alive
    /\ \A n \in HistoryLengths(r.st) : n <= MaxHistory
    /\ Becomes(r.st)
    /\ last' = Call("SetName", l, name, data, undo, r.err = "none", r.err,
                    cacheCoins[l])

CallDeleteName(l, name) ==
    LET r == DeleteName(Stack, l, name) IN
    /\ Alive
    /\ Becomes(r.st)
    /\ last' = Call("DeleteName", l, name, coinEmpty, FALSE, r.err = "none", r.err,
                    cacheCoins[l])

\* Any public call on any cache of the stack, with any arguments, except
\* EmplaceCoinInternalDANGER (see NextEmplace).
Next ==
    \/ \E l \in CallCaches, o \in OutPoints : CallGetCoin(l, o)
    \/ \E l \in CallCaches, o \in OutPoints : CallHaveCoin(l, o)
    \/ \E l \in CallCaches, o \in OutPoints : CallAccessCoin(l, o)
    \/ \E l \in CallCaches, o \in OutPoints : CallHaveCoinInCache(l, o)
    \/ \E l \in CallCaches, o \in OutPoints, coin \in CoinArgs,
          possible_overwrite \in BOOLEAN : CallAddCoin(l, o, coin, possible_overwrite)
    \/ \E l \in CallCaches, o \in OutPoints, moveout \in BOOLEAN : CallSpendCoin(l, o, moveout)
    \/ \E l \in CallCaches, o \in OutPoints : CallUncache(l, o)
    \/ \E l \in CallCaches : CallGetBestBlock(l)
    \/ \E l \in CallCaches, h \in BlockHashes : CallSetBestBlock(l, h)
    \/ \E l \in CallCaches : CallFlush(l)

Spec == Init /\ [][Next]_vars

\* The coins handed to EmplaceCoinInternalDANGER: any coin at all.
EmplaceArgs == CoinArgs \cup {coinEmpty}

\* The coin calls on any cache of the stack, EmplaceCoinInternalDANGER among
\* them, with any arguments.
NextEmplace ==
    \/ \E l \in CallCaches, o \in OutPoints : CallGetCoin(l, o)
    \/ \E l \in CallCaches, o \in OutPoints : CallHaveCoin(l, o)
    \/ \E l \in CallCaches, o \in OutPoints, coin \in CoinArgs,
          possible_overwrite \in BOOLEAN : CallAddCoin(l, o, coin, possible_overwrite)
    \/ \E l \in CallCaches, o \in OutPoints, coin \in EmplaceArgs :
          CallEmplaceCoinInternalDANGER(l, o, coin)
    \/ \E l \in CallCaches, o \in OutPoints, moveout \in BOOLEAN : CallSpendCoin(l, o, moveout)
    \/ \E l \in CallCaches, o \in OutPoints : CallUncache(l, o)
    \/ \E l \in CallCaches : CallFlush(l)

\* No call of NextEmplace sets or reads a best-block hash, so the backing
\* store starts without one.
InitEmplace == Init /\ dbBestBlock = NullHash

SpecEmplace == InitEmplace /\ [][NextEmplace]_vars

\* No cache above cache l holds an entry: the caches layered on l have just
\* been built, flushed or emptied.
Quiet(l) == \A k \in Caches : k > l => DOMAIN cacheCoins[k] = {}

\* The stack used as a stack: a cache is written to (AddCoin, SpendCoin,
\* Flush) only while no cache layered on it holds entries.
NextStack ==
    \/ \E l \in CallCaches, o \in OutPoints : CallGetCoin(l, o)
    \/ \E l \in CallCaches, o \in OutPoints : CallHaveCoin(l, o)
    \/ \E l \in CallCaches, o \in OutPoints : CallAccessCoin(l, o)
    \/ \E l \in CallCaches, o \in OutPoints : CallHaveCoinInCache(l, o)
    \/ \E l \in CallCaches, o \in OutPoints, coin \in CoinArgs,
          possible_overwrite \in BOOLEAN :
            Quiet(l) /\ CallAddCoin(l, o, coin, possible_overwrite)
    \/ \E l \in CallCaches, o \in OutPoints, moveout \in BOOLEAN :
            Quiet(l) /\ CallSpendCoin(l, o, moveout)
    \/ \E l \in CallCaches, o \in OutPoints : CallUncache(l, o)
    \/ \E l \in CallCaches : CallGetBestBlock(l)
    \/ \E l \in CallCaches, h \in BlockHashes : CallSetBestBlock(l, h)
    \/ \E l \in CallCaches : Quiet(l) /\ CallFlush(l)

SpecStack == Init /\ [][NextStack]_vars

\* The three-cache stack used as a stack: reads, AddCoin, SpendCoin, Uncache
\* and Flush on A = cache 1, B = cache 2 and C = cache 3.
Next3 ==
    \/ \E l \in Caches, o \in OutPoints : CallHaveCoin(l, o)
    \/ \E l \in Caches, o \in OutPoints, coin \in LiveCoins,
          possible_overwrite \in BOOLEAN :
            Quiet(l) /\ CallAddCoin(l, o, coin, possible_overwrite)
    \/ \E l \in Caches, o \in OutPoints : Quiet(l) /\ CallSpendCoin(l, o, FALSE)
    \/ \E l \in Caches, o \in OutPoints : CallUncache(l, o)
    \/ \E l \in Caches : Quiet(l) /\ CallFlush(l)

\* No call of Next3 sets or reads a best-block hash, so the backing store
\* starts without one.
Init3 == Init /\ dbBestBlock = NullHash

Spec3 == Init3 /\ [][Next3]_vars

\* The stores of names the backing database can hold when the stack is
\* built: no name, or a name with its record, its expire entry and, when
\* histories are kept, a history stack (empty, or holding one older record).
DbNameStates(hist) ==
    {EmptyDbNames}
      \cup {[entries |-> [n \in {name} |-> d],
             history |-> history,
             expire |-> {<<d.nHeight, name>>}] :
               name \in Names, d \in NameDatas,
               history \in IF hist
                             THEN {[n \in Names |-> h] :
                                     h \in {<< >>} \cup {<<x>> : x \in NameDatas}}
                             ELSE {EmptyMap}}

\* The stacks in which the parent, cache 1, has taken at most one coin call
\* and at most one name call since it was built over the store of st.
ParentStates(st) ==
    LET coinCalls ==
            {st} \cup {ViewGetCoin(st, 1, o).st : o \in OutPoints}
                 \cup {SpendCoin(st, 1, o).st : o \in OutPoints}
                 \cup {AddCoin(st, 1, o, c, po).st :
                          o \in OutPoints, c \in LiveCoins, po \in BOOLEAN}
                 \cup {SetBestBlock(st, 1, h) : h \in BlockHashes}
        nameCalls(s) ==
            {s} \cup {r.st : r \in {x \in {SetName(s, 1, n, d, FALSE) :
                                               n \in Names, d \in NameDatas} :
                                       x.err = "none"}}
                \cup {r.st : r \in {x \in {DeleteName(s, 1, n) : n \in Names} :
                                       x.err = "none"}}
    IN UNION {nameCalls(s) : s \in coinCalls}

\* The coin map and the name cache of a cache meet only in Flush
\* (coins.cpp:344); no other call looks at both.
CoinsUntouched ==
    /\ dbCoins = EmptyMap /\ dbBestBlock = NullHash
    /\ \A l \in Caches : cacheCoins[l] = EmptyMap /\ hashBlock[l] = NullHash

NamesUntouched ==
    /\ dbNames = EmptyDbNames
    /\ \A l \in Caches : empty(cacheNames[l])

NextChildCoins ==
    \/ \E o \in OutPoints : Alive /\ CallGetCoin(2, o)
    \/ \E o \in OutPoints : Alive /\ CallHaveCoin(2, o)
    \/ \E o \in OutPoints : Alive /\ CallAccessCoin(2, o)
    \/ \E o \in OutPoints : Alive /\ CallHaveCoinInCache(2, o)
    \/ \E o \in OutPoints, coin \in CoinArgs, possible_overwrite \in BOOLEAN :
            Alive /\ CallAddCoin(2, o, coin, possible_overwrite)
    \/ \E o \in OutPoints, moveout \in BOOLEAN : Alive /\ CallSpendCoin(2, o, moveout)
    \/ \E o \in OutPoints : Alive /\ CallUncache(2, o)
    \/ Alive /\ CallGetBestBlock(2)

NextChildNames ==
    \/ \E name \in Names : CallGetName(2, name)
    \/ \E name \in Names : CallGetNameHistory(2, name)
    \/ \E nHeight \in Heights : CallGetNamesForHeight(2, nHeight)
    \/ \E name \in Names, data \in NameDatas, undo \in BOOLEAN :
            CallSetName(2, name, data, undo)
    \/ \E name \in Names : CallDeleteName(2, name)

\* A child, cache 2, over a parent that has been used, over any store.
InitChild ==
    /\ \E db \in DbStates, best \in BlockHashes \cup {NullHash}, hist \in BOOLEAN :
         \E dbn \in DbNameStates(hist) : \E st \in ParentStates(
                     [db |-> db, dbBest |-> best,
                      coins |-> [l \in Caches |-> EmptyMap],
                      usage |-> [l \in Caches |-> 0],
                      hash |-> [l \in Caches |-> NullHash],
                      names |-> [l \in Caches |-> EmptyNameCache],
                      dbNames |-> dbn, fNameHistory |-> hist]) :
            /\ dbCoins = st.db /\ dbBestBlock = st.dbBest
            /\ cacheCoins = st.coins /\ cachedCoinsUsage = st.usage
            /\ hashBlock = st.hash /\ cacheNames = st.names
            /\ dbNames = st.dbNames /\ fNameHistory = st.fNameHistory
    /\ CoinsUntouched \/ NamesUntouched
    /\ NoErrorCatcher
    /\ last = Call("init", 0, "-", coinEmpty, FALSE, TRUE, "none", EmptyMap)

\* The calls on the child other than Flush: reads, AddCoin, SpendCoin,
\* Uncache, SetName and DeleteName.  A behaviour works on the coins over an
\* untouched registry of names or on the names over an untouched coin state.
NextChild ==
    \/ NamesUntouched /\ NextChildCoins
    \/ CoinsUntouched /\ NextChildNames

SpecChild == InitChild /\ [][NextChild]_vars

\* Caches 1 and 2 built over an empty store, with or without name
\* histories, after SetBestBlock has given each its best block.
InitNames ==
    /\ dbNames = EmptyDbNames
    /\ fNameHistory \in BOOLEAN
    /\ dbCoins = EmptyMap /\ dbBestBlock = NullHash
    /\ cacheCoins = [l \in Caches |-> EmptyMap]
    /\ cachedCoinsUsage = [l \in Caches |-> 0]
    /\ \E h \in BlockHashes :
          hashBlock = [l \in Caches |-> IF l \in CallCaches THEN h ELSE NullHash]
    /\ cacheNames = [l \in Caches |-> EmptyNameCache]
    /\ NoErrorCatcher
    /\ last = Call("init", 0, "-", coinEmpty, FALSE, TRUE, "none", EmptyMap)

\* No cache above cache l holds a change of names.
QuietNames(l) == \A k \in Caches : k > l => empty(cacheNames[k])

\* The calls that change names, and Flush, on caches 1 and 2, used as a
\* stack: a cache is written to only while no cache layered on it holds
\* changes.  (The reads of names change nothing, coins.cpp:189-220.)
NextNames ==
    \/ \E l \in CallCaches, name \in Names, data \in NameDatas, undo \in BOOLEAN :
            QuietNames(l) /\ CallSetName(l, name, data, undo)
    \/ \E l \in CallCaches, name \in Names : QuietNames(l) /\ CallDeleteName(l, name)
    \/ \E l \in CallCaches : Alive /\ QuietNames(l) /\ CallFlush(l)

SpecNames == InitNames /\ [][NextNames]_vars

\* The transactions handed to AddCoins: one txid, up to MaxOutputs outputs,
\* spendable or not, coinbase or not.
TxIds == {"T"}
TxOuts == {CoinSmall, CoinUnspendable}
TxHeight == 100
Txs ==
    {[txid |-> t, vout |-> v, fCoinBase |-> b] :
        t \in TxIds, b \in BOOLEAN,
        v \in UNION {[1..n -> TxOuts] : n \in 1..MaxOutputs}}
TxOutPoints == {COutPoint(t, i) : t \in TxIds, i \in 0..(MaxOutputs - 1)}

\* Cache 1 built over a store that is empty or holds an earlier coin, of a
\* coinbase or not, for every output of the transaction.
InitAddCoins ==
    /\ dbCoins \in {EmptyMap} \cup
                   {[o \in TxOutPoints |-> Coin(CoinSmall, TxHeight, b)] : b \in BOOLEAN}
    /\ dbBestBlock = NullHash
    /\ cacheCoins = [l \in Caches |-> EmptyMap]
    /\ cachedCoinsUsage = [l \in Caches |-> 0]
    /\ hashBlock = [l \in Caches |-> NullHash]
    /\ cacheNames = [l \in Caches |-> EmptyNameCache]
    /\ dbNames = EmptyDbNames
    /\ fNameHistory = TRUE
    /\ NoErrorCatcher
    /\ last = Call("init", 0, << >>, << >>, FALSE, TRUE, "none", EmptyMap)

\* AddCoins and SpendCoin on cache 1.
NextAddCoins ==
    \/ \E tx \in Txs, check_for_overwrite \in BOOLEAN :
            CallAddCoins(1, tx, TxHeight, check_for_overwrite)
    \/ \E o \in TxOutPoints : CallSpendCoin(1, o, FALSE)

SpecAddCoins == InitAddCoins /\ [][NextAddCoins]_vars

\* The outpoints of the batches handed to BatchWrite in SpecBatch.
BatchOutPoints == {"O1", "O2"}

\* Every entry a caller can put into the map it hands to BatchWrite.
AnyEntries ==
    {CCoinsCacheEntry(c, f) : c \in LiveCoins \cup {coinEmpty}, f \in SUBSET {DIRTY, FRESH}}

\* The entries the calls on a cache leave in its map.
HeldEntries ==
    {e \in AnyEntries :
        /\ e.flags = {} => ~IsSpent(e.coin)
        /\ e.flags = {FRESH} => IsSpent(e.coin)
        /\ e.flags = {DIRTY, FRESH} => ~IsSpent(e.coin)}

MapsOver(S, E) == UNION {[D -> E] : D \in SUBSET S}

\* BatchWrite as a function of its inputs: cache 1 holds any map the calls
\* on a cache can leave, cache 2 holds the batch, any map at all.
InitBatch ==
    /\ dbCoins = EmptyMap
    /\ dbBestBlock = NullHash
    /\ \E us \in MapsOver(BatchOutPoints, HeldEntries),
          batch \in MapsOver(BatchOutPoints, AnyEntries) :
            cacheCoins = [l \in Caches |->
                            IF l = 1 THEN us ELSE IF l = 2 THEN batch ELSE EmptyMap]
    /\ cachedCoinsUsage = [l \in Caches |-> CoinsUsage(cacheCoins[l])]
    /\ hashBlock = [l \in Caches |-> IF l = 2 THEN "h1" ELSE NullHash]
    /\ cacheNames = [l \in Caches |-> EmptyNameCache]
    /\ dbNames = EmptyDbNames
    /\ fNameHistory = TRUE
    /\ NoErrorCatcher
    /\ last = Call("init", 0, "-", coinEmpty, FALSE, TRUE, "none", EmptyMap)

\* Cache 2 hands its map to BatchWrite of cache 1, once.
NextBatch == last.op = "init" /\ CallFlush(2)

SpecBatch == InitBatch /\ [][NextBatch]_vars

(* ------------------------------------------------------------------ *)
(* CCoinsViewErrorCatcher                                             *)
(* ------------------------------------------------------------------ *)

\* The callbacks a node may register, and the most it registers.
Callbacks == {"f1", "f2", "f3"}
MaxCallbacks == 2

\* The loop over m_err_callbacks: the callbacks cbs run one after the
\* other, from the first, each leaving its mark in the log.
RECURSIVE RunCallbacks(_, _)
RunCallbacks(cbs, log) ==
    IF cbs = << >> THEN log
    ELSE RunCallbacks(Tail(cbs), Append(log, Head(cbs)))

\* A catcher that runs the callbacks and then reports the coin as absent.
CatcherGetCoin_ReturnsFalse(st, cbs, log, o, readError) ==
    IF readError
    THEN [called |-> RunCallbacks(cbs, log), err |-> "none",
          ret |-> FALSE, coin |-> coinEmpty]
    ELSE [called |-> log, err |-> "none",
          ret |-> DbGetCoin(st, o).ret, coin |-> DbGetCoin(st, o).coin]

\* CCoinsViewErrorCatcher::GetCoin over the backing store, whose read ends
\* in a runtime_error when readError: the callbacks run and the process
\* aborts; otherwise the answer of the store is handed on.
CatcherGetCoin(st, cbs, log, o, readError) ==
    IF readError
    THEN [called |-> RunCallbacks(cbs, log), err |-> "abort",
          ret |-> FALSE, coin |-> coinEmpty]
    ELSE [called |-> log, err |-> "none",
          ret |-> DbGetCoin(st, o).ret, coin |-> DbGetCoin(st, o).coin]

\* The process has not aborted.
Running == last.err # "abort"

\* CCoinsViewErrorCatcher::AddReadErrCallback.
CallAddReadErrCallback(f) ==
    /\ Running
    /\ Len(m_err_callbacks) < MaxCallbacks
    /\ m_err_callbacks' = Append(m_err_callbacks, f)
    /\ UNCHANGED <<dbCoins, dbBestBlock, cacheCoins, cachedCoinsUsage, hashBlock,
                   cacheNames, dbNames, fNameHistory, called>>
    /\ last' = Call("AddReadErrCallback", 0, f, coinEmpty, FALSE, TRUE, "none",
                    EmptyMap)

\* GetCoin on the error catcher; after an abort the caller gets no answer.
CallCatcherGetCoin(o, readError) ==
    LET r == CatcherGetCoin(Stack, m_err_callbacks, called, o, readError) IN
    /\ Running
    /\ called' = r.called
    /\ UNCHANGED <<dbCoins, dbBestBlock, cacheCoins, cachedCoinsUsage, hashBlock,
                   cacheNames, dbNames, fNameHistory, m_err_callbacks>>
    /\ last' = Call("CatcherGetCoin", 0, o, r.coin, readError, r.ret, r.err,
                    EmptyMap)

NextCatcher ==
    \/ \E f \in Callbacks : CallAddReadErrCallback(f)
    \/ \E o \in OutPoints, readError \in BOOLEAN : CallCatcherGetCoin(o, readError)

\* The error catcher over a store, from before any callback is registered.
SpecCatcher == Init /\ [][NextCatcher]_vars

\* The maps hold entries for known outpoints only, of the shapes the calls
\* of Next leave behind.
TypeOK ==
    \A l \in Caches :
        /\ DOMAIN cacheCoins[l] \subseteq OutPoints
        /\ \A o \in DOMAIN cacheCoins[l] : cacheCoins[l][o] \in HeldEntries

(* ------------------------------------------------------------------ *)
(* Observations used by the properties                                *)
(* ------------------------------------------------------------------ *)

\* View v would hand out an unspent coin for outpoint o.
ViewHasLive(st, v, o) ==
    LET r == ViewGetCoin(st, v, o) IN r.ret /\ ~IsSpent(r.coin)

\* The last call was op on cache l and ended without a logic_error.
Did(op, l) == last.op = op /\ last.l = l /\ last.err = "none"

\* Every FRESH entry of cache l has no unspent coin in the parent view.
FreshOK(st, l) ==
    \A o \in DOMAIN st.coins[l] :
        FRESH \in st.coins[l][o].flags => ~ViewHasLive(st, l - 1, o)

(* ------------------------------------------------------------------ *)
(* C1                                                                 *)
(* ------------------------------------------------------------------ *)

\* C1 as stated: a Flush of cache l (l >= 2, so that the parent is a cache)
\* that returns true leaves the parent answering HaveCoin for every outpoint
\* as cache l answered it just before the Flush.
C1_Original ==
    [][\A l \in Caches \ {1}, o \in OutPoints :
          (last'.op = "Flush" /\ last'.l = l /\ last'.err = "none" /\ last'.ret)
              => HaveCoin(Stack', l - 1, o).ret = HaveCoin(Stack, l, o).ret]_vars

\* C1 amended: the same, for a parent none of whose entries is FRESH over an
\* unspent coin of its own parent.
C1_FlushKeepsHaveCoin ==
    [][\A l \in Caches \ {1}, o \in OutPoints :
          (/\ last'.op = "Flush" /\ last'.l = l /\ last'.err = "none" /\ last'.ret
           /\ FreshOK(Stack, l - 1))
              => HaveCoin(Stack', l - 1, o).ret = HaveCoin(Stack, l, o).ret]_vars

\* A Flush of cache 2 returned true, cache 2 held O1 as a spent DIRTY entry
\* (it had spent the coin) and the parent, whose FRESH marks are sound, now
\* holds O1 spent.
C1_Witness ==
    /\ Did("Flush", 2) /\ last.ret
    /\ "O1" \in DOMAIN last.pre
    /\ IsSpent(last.pre["O1"].coin) /\ last.pre["O1"].flags = {DIRTY}
    /\ "O1" \in DOMAIN cacheCoins[1] /\ IsSpent(cacheCoins[1]["O1"].coin)
    /\ FreshOK(Stack, 1)
    /\ ~HaveCoin(Stack, 1, "O1").ret

(* ------------------------------------------------------------------ *)
(* C2                                                                 *)
(* ------------------------------------------------------------------ *)

\* C2 as stated: after any sequence of calls every FRESH entry of every
\* cache has no unspent coin in the parent view.
C2_Original == \A l \in Caches : FreshOK(Stack, l)

\* The call just made was AddCoin with possible_overwrite = false for an
\* outpoint the cache reported as unspent.
OverwritePromiseBroken ==
    /\ last'.op = "AddCoin" /\ ~last'.po
    /\ HaveCoin(Stack, last'.l, last'.o).ret

\* C2 amended: every call keeps the FRESH entries of all caches free of an
\* unspent coin in the parent view, except an AddCoin with
\* possible_overwrite = false on an outpoint that is unspent in the cache's
\* view, which marks the entry FRESH on the caller's word.
C2_FreshPreserved ==
    [][((\A l \in Caches : FreshOK(Stack, l)) /\ ~OverwritePromiseBroken)
          => (\A l \in Caches : FreshOK(Stack', l))]_vars

\* AddCoin with possible_overwrite = false has just marked O1 FRESH in cache
\* 2 and the parent view holds no unspent coin for it.
C2_Witness ==
    /\ Did("AddCoin", 2) /\ ~last.po /\ last.o = "O1"
    /\ "O1" \in DOMAIN cacheCoins[2]
    /\ cacheCoins[2]["O1"].flags = {DIRTY, FRESH}
    /\ \A l \in Caches : FreshOK(Stack, l)

(* ------------------------------------------------------------------ *)
(* C3                                                                 *)
(* ------------------------------------------------------------------ *)

\* What view v holds for outpoint o in its own store: nothing, or one
\* record (a coin of the backing store, an entry of a cache).
Slot(st, v, o) ==
    IF v = 0
    THEN IF o \in DOMAIN st.db THEN {st.db[o]} ELSE {}
    ELSE IF o \in DOMAIN st.coins[v] THEN {st.coins[v][o]} ELSE {}

\* C3: a coin created and then spent above a view that lacks it never
\* reaches that view.  AddCoin(o, c, false) into a free slot makes the entry
\* DIRTY|FRESH; a child's DIRTY|FRESH unspent entry flushed into a free slot
\* of the parent arrives DIRTY|FRESH; SpendCoin of a DIRTY|FRESH entry
\* erases it; and a Flush of a cache without an entry for o leaves the
\* parent's record for o as it was.
C3_CreatedThenSpentVanishes ==
    [][\A l \in Caches, o \in OutPoints :
        /\ (/\ last'.op = "AddCoin" /\ last'.l = l /\ last'.o = o
            /\ ~last'.po /\ ~IsUnspendable(last'.coin)
            /\ o \notin DOMAIN cacheCoins[l])
              => Slot(Stack', l, o) = {CCoinsCacheEntry(last'.coin, {DIRTY, FRESH})}
        /\ (/\ last'.op = "Flush" /\ last'.l = l /\ l > 1 /\ last'.err = "none"
            /\ o \in DOMAIN cacheCoins[l]
            /\ cacheCoins[l][o].flags = {DIRTY, FRESH}
            /\ ~IsSpent(cacheCoins[l][o].coin)
            /\ o \notin DOMAIN cacheCoins[l - 1])
              => Slot(Stack', l - 1, o) = {cacheCoins[l][o]}
        /\ (/\ last'.op = "SpendCoin" /\ last'.l = l /\ last'.o = o
            /\ o \in DOMAIN cacheCoins[l]
            /\ cacheCoins[l][o].flags = {DIRTY, FRESH})
              => (last'.ret /\ Slot(Stack', l, o) = {})
        /\ (/\ last'.op = "Flush" /\ last'.l = l
            /\ o \notin DOMAIN cacheCoins[l])
              => Slot(Stack', l - 1, o) = Slot(Stack, l - 1, o)]_vars

\* SpendCoin on cache 1 has just erased a DIRTY|FRESH entry for O1 and the
\* backing store has no record of O1.
C3_Witness ==
    /\ Did("SpendCoin", 1) /\ last.o = "O1" /\ last.ret
    /\ "O1" \in DOMAIN last.pre
    /\ last.pre["O1"].flags = {DIRTY, FRESH}
    /\ cacheCoins[1] = EmptyMap
    /\ "O1" \notin DOMAIN dbCoins

(* ------------------------------------------------------------------ *)
(* C4                                                                 *)
(* ------------------------------------------------------------------ *)

\* C4: the memory counter of every cache equals the sum of
\* DynamicMemoryUsage over the coins held in its map.
C4_UsageCounter ==
    \A l \in Caches : cachedCoinsUsage[l] = CoinsUsage(cacheCoins[l])

(* ------------------------------------------------------------------ *)
(* C5                                                                 *)
(* ------------------------------------------------------------------ *)

\* The map of a cache holding us after BatchWrite has taken the map batch,
\* visiting its entries in the given order, and the error BatchWrite ended
\* with.  After a throw the map depends on the order.
Merged(us, batch, order) ==
    LET r == BatchWriteLoop([coins |-> us, usage |-> 0, err |-> "none"],
                            batch, order, 1)
    IN [coins |-> r.us.coins, err |-> r.us.err]

\* Every outcome of BatchWrite on a cache holding us when it takes batch,
\* one for each order in which the batch can be iterated.
Merges(us, batch) ==
    {Merged(us, batch, order) : order \in IterationOrders(DOMAIN batch)}

\* A after C was flushed into B (the step just taken) and B is then flushed
\* into A: every outcome.
FlushedCThenB == Merges(cacheCoins'[1], cacheCoins'[2])

\* A after B is merged into A first, without an error, and the changes of C
\* are then flushed into that merged A: every outcome.
MergedBThenC ==
    UNION {Merges(m.coins, cacheCoins[3]) :
              m \in {x \in Merges(cacheCoins[1], cacheCoins[2]) : x.err = "none"}}

\* No merge of either sequence throws, whatever the iteration order.
NoMergeError ==
    /\ \A m \in FlushedCThenB : m.err = "none"
    /\ \A m \in Merges(cacheCoins[1], cacheCoins[2]) : m.err = "none"
    /\ \A m \in MergedBThenC : m.err = "none"

\* C5 as stated: when C has been flushed into B, flushing B into A gives the
\* same map of A, entry by entry, as merging B into A first and C into the
\* result.
C5_Original ==
    [][(last'.op = "Flush" /\ last'.l = 3 /\ last'.err = "none" /\ NoMergeError)
          => \A m1 \in FlushedCThenB, m2 \in MergedBThenC : m1.coins = m2.coins]_vars

\* What cache A answers to GetCoin(o) when its map is coinsA: the return
\* value, and the coin when it returns true.
AnswerOfA(coinsA, o) ==
    LET r == ViewGetCoin([Stack EXCEPT !.coins[1] = coinsA], 1, o)
    IN [ret |-> r.ret, coin |-> IF r.ret THEN r.coin ELSE coinEmpty]

\* The unspent coins the backing store holds after a cache A with map
\* coinsA is flushed into it.
StoreAfterFlushOfA(coinsA, keepSpent) ==
    LET db == DbBatchWrite(Stack, coinsA, "h1", EmptyNameCache, TRUE, keepSpent).st.db
    IN [o \in {x \in DOMAIN db : ~IsSpent(db[x])} |-> db[o]]

\* C5 amended: when every FRESH entry of A, B and C covers an outpoint with
\* no unspent coin in the parent, the two orders leave A answering GetCoin
\* alike for every outpoint and leave the same unspent coins in the backing
\* store when A is flushed; the maps of A can differ in FRESH flags and in spent entries
\* that one order keeps and the other erases.
C5_FlushOrdersAgree ==
    [][(/\ last'.op = "Flush" /\ last'.l = 3 /\ last'.err = "none"
        /\ NoMergeError
        /\ \A l \in Caches : FreshOK(Stack, l))
          => \A m1 \in FlushedCThenB, m2 \in MergedBThenC :
               /\ \A o \in OutPoints :
                    AnswerOfA(m1.coins, o) = AnswerOfA(m2.coins, o)
               /\ \A keepSpent \in BOOLEAN :
                    StoreAfterFlushOfA(m1.coins, keepSpent)
                        = StoreAfterFlushOfA(m2.coins, keepSpent)]_vars

\* C has just been flushed into B, both B and C had changed O1, and
\* flushing B into A will change A's map.
C5_Witness ==
    /\ Did("Flush", 3) /\ last.ret
    /\ "O1" \in DOMAIN last.pre /\ DIRTY \in last.pre["O1"].flags
    /\ "O1" \in DOMAIN cacheCoins[2] /\ DIRTY \in cacheCoins[2]["O1"].flags
    /\ "O1" \in DOMAIN cacheCoins[1]
    /\ \A m \in Merges(cacheCoins[1], cacheCoins[2]) :
          m.err = "none" /\ m.coins # cacheCoins[1]
    /\ \A l \in Caches : FreshOK(Stack, l)

(* ------------------------------------------------------------------ *)
(* C6                                                                 *)
(* ------------------------------------------------------------------ *)

\* The merge table: what the receiving slot us (no record, or one entry)
\* becomes when it meets the child's slot it.
MergeTable(us, it) ==
    IF it = {} THEN us
    ELSE LET c == CHOOSE e \in it : TRUE IN
         IF DIRTY \notin c.flags THEN us
         ELSE IF us = {}
         THEN IF FRESH \notin c.flags THEN {CCoinsCacheEntry(c.coin, {DIRTY})}
              ELSE IF IsSpent(c.coin) THEN {}
              ELSE {CCoinsCacheEntry(c.coin, {DIRTY, FRESH})}
         ELSE LET p == CHOOSE e \in us : TRUE IN
              IF IsSpent(c.coin) /\ FRESH \in p.flags THEN {}
              ELSE {CCoinsCacheEntry(c.coin, p.flags \cup {DIRTY})}

\* C6: a BatchWrite that does not raise leaves every slot of the receiving
\* cache as the merge table says: a child entry that is not DIRTY is
\* ignored; DIRTY without FRESH into a free slot is inserted DIRTY;
\* DIRTY|FRESH spent into a free slot is dropped; DIRTY|FRESH unspent into a
\* free slot is inserted DIRTY|FRESH; a spent DIRTY entry meeting a FRESH
\* entry erases it; otherwise the child's coin replaces the coin, DIRTY is
\* set and the entry gains no FRESH from the child.
C6_BatchWriteTable ==
    [][(last'.op = "Flush" /\ last'.l = 2 /\ last'.err = "none") =>
          \A o \in BatchOutPoints :
              Slot(Stack', 1, o) = MergeTable(Slot(Stack, 1, o), Slot(Stack, 2, o))]_vars

\* A BatchWrite has just merged a two-entry batch into cache 1: the FRESH
\* entry of O1 was erased by the child's spent DIRTY entry, and O2, held
\* DIRTY, took the coin of the child's DIRTY|FRESH entry without its FRESH.
C6_Witness ==
    /\ Did("Flush", 2) /\ last.ret
    /\ DOMAIN last.pre = BatchOutPoints
    /\ last.pre["O1"] = CCoinsCacheEntry(coinEmpty, {DIRTY})
    /\ last.pre["O2"] = CCoinsCacheEntry(CoinLarge, {DIRTY, FRESH})
    /\ "O1" \notin DOMAIN cacheCoins[1]
    /\ "O2" \in DOMAIN cacheCoins[1]
    /\ cacheCoins[1]["O2"] = CCoinsCacheEntry(CoinLarge, {DIRTY})
    /\ cachedCoinsUsage[1] = DynamicMemoryUsage(CoinLarge)

(* ------------------------------------------------------------------ *)
(* C7                                                                 *)
(* ------------------------------------------------------------------ *)

\* The batch holds a DIRTY entry flagged FRESH for an outpoint that the
\* receiving map holds unspent.
FreshOverLive(us, batch) ==
    \E o \in DOMAIN batch :
        /\ {DIRTY, FRESH} \subseteq batch[o].flags
        /\ o \in DOMAIN us /\ ~IsSpent(us[o].coin)

\* C7: BatchWrite raises FreshAppliedToExisting exactly when the batch holds
\* a DIRTY entry flagged FRESH whose outpoint the receiving map holds
\* unspent; it raises nothing when the receiving entry is spent or absent.
C7_FreshAppliedToExisting ==
    [][(last'.op = "Flush" /\ last'.l = 2) =>
          /\ last'.err = "FreshAppliedToExisting"
                <=> FreshOverLive(cacheCoins[1], cacheCoins[2])
          /\ last'.err \in {"none", "FreshAppliedToExisting"}]_vars

\* BatchWrite has just raised FreshAppliedToExisting: the entry of O2 in the
\* batch is DIRTY|FRESH and cache 1 holds O2 unspent, and the batch is still
\* in the caller's hands.
C7_Witness ==
    /\ last.op = "Flush" /\ last.l = 2 /\ last.err = "FreshAppliedToExisting"
    /\ "O2" \in DOMAIN last.pre
    /\ last.pre["O2"].flags = {DIRTY, FRESH}
    /\ "O2" \in DOMAIN cacheCoins[1] /\ ~IsSpent(cacheCoins[1]["O2"].coin)
    /\ "O2" \in DOMAIN cacheCoins[2]

(* ------------------------------------------------------------------ *)
(* C8                                                                 *)
(* ------------------------------------------------------------------ *)

\* C8 as stated: AddCoin with possible_overwrite = false on an outpoint
\* whose entry is unspent raises OverwriteUnspent and leaves the entry as it
\* was, whatever the coin; with possible_overwrite = true it never raises.
C8_Original ==
    [][\A l \in Caches, o \in OutPoints :
        (last'.op = "AddCoin" /\ last'.l = l /\ last'.o = o) =>
            /\ (/\ ~last'.po
                /\ o \in DOMAIN cacheCoins[l]
                /\ ~IsSpent(cacheCoins[l][o].coin))
                  => (/\ last'.err = "OverwriteUnspent"
                      /\ cacheCoins'[l] = cacheCoins[l])
            /\ last'.po => last'.err = "none"]_vars

\* C8 amended: the same for a coin whose script is spendable (an
\* unspendable coin is dropped before the entry is looked at).
C8_OverwriteUnspent ==
    [][\A l \in Caches, o \in OutPoints :
        (last'.op = "AddCoin" /\ last'.l = l /\ last'.o = o) =>
            /\ (/\ ~last'.po /\ ~IsUnspendable(last'.coin)
                /\ o \in DOMAIN cacheCoins[l]
                /\ ~IsSpent(cacheCoins[l][o].coin))
                  => (/\ last'.err = "OverwriteUnspent"
                      /\ cacheCoins'[l] = cacheCoins[l])
            /\ last'.po => last'.err = "none"]_vars

\* AddCoin with possible_overwrite = false has just raised OverwriteUnspent
\* on O1, which still holds its unspent coin, not the coin of the call.
C8_Witness ==
    /\ last.op = "AddCoin" /\ ~last.po /\ last.o = "O1"
    /\ last.err = "OverwriteUnspent"
    /\ "O1" \in DOMAIN cacheCoins[last.l]
    /\ ~IsSpent(cacheCoins[last.l]["O1"].coin)
    /\ cacheCoins[last.l]["O1"].coin # last.coin
    /\ cacheCoins[last.l] = last.pre

(* ------------------------------------------------------------------ *)
(* C9                                                                 *)
(* ------------------------------------------------------------------ *)

\* The flags of the entry of cache l for o, none when there is no entry.
FlagsOf(coins, l, o) ==
    IF o \in DOMAIN coins[l] THEN coins[l][o].flags ELSE {}

\* C9 as stated: after an AddCoin of a spendable coin that does not raise,
\* the entry holds the coin and is DIRTY; for either value of
\* possible_overwrite it is FRESH when the slot was absent or not DIRTY, and
\* its FRESH flag is as before when the slot was DIRTY.
C9_Original ==
    [][\A l \in Caches, o \in OutPoints :
        (/\ last'.op = "AddCoin" /\ last'.l = l /\ last'.o = o
         /\ last'.err = "none" /\ ~IsUnspendable(last'.coin)) =>
            /\ o \in DOMAIN cacheCoins'[l]
            /\ cacheCoins'[l][o].coin = last'.coin
            /\ DIRTY \in cacheCoins'[l][o].flags
            /\ DIRTY \notin FlagsOf(cacheCoins, l, o)
                  => FRESH \in cacheCoins'[l][o].flags
            /\ DIRTY \in FlagsOf(cacheCoins, l, o)
                  => (FRESH \in cacheCoins'[l][o].flags
                        <=> FRESH \in FlagsOf(cacheCoins, l, o))]_vars

\* C9 amended: after an AddCoin of a spendable coin that does not raise,
\* the entry holds the coin, keeps the flags it had and is DIRTY; the call
\* adds FRESH only when possible_overwrite is false and the slot was absent
\* or not DIRTY; with possible_overwrite = true it never adds FRESH.
C9_AddCoinFlags ==
    [][\A l \in Caches, o \in OutPoints :
        (/\ last'.op = "AddCoin" /\ last'.l = l /\ last'.o = o
         /\ last'.err = "none" /\ ~IsUnspendable(last'.coin)) =>
            /\ o \in DOMAIN cacheCoins'[l]
            /\ cacheCoins'[l][o].coin = last'.coin
            /\ cacheCoins'[l][o].flags =
                  FlagsOf(cacheCoins, l, o) \cup {DIRTY}
                    \cup (IF ~last'.po /\ DIRTY \notin FlagsOf(cacheCoins, l, o)
                          THEN {FRESH} ELSE {})]_vars

\* AddCoin with possible_overwrite = false has just re-added O1 over a spent
\* DIRTY entry: the entry holds the coin and is DIRTY, not FRESH.
C9_Witness ==
    /\ last.op = "AddCoin" /\ last.err = "none" /\ ~last.po /\ last.o = "O1"
    /\ "O1" \in DOMAIN last.pre
    /\ last.pre["O1"] = CCoinsCacheEntry(coinEmpty, {DIRTY})
    /\ cacheCoins[last.l]["O1"] = CCoinsCacheEntry(last.coin, {DIRTY})

(* ------------------------------------------------------------------ *)
(* C10                                                                *)
(* ------------------------------------------------------------------ *)

\* SpendCoin(o) on cache l directly follows an AddCoin(o, c) on it.
AddThenSpend(l, o) ==
    /\ last.op = "AddCoin" /\ last.l = l /\ last.o = o /\ last.err = "none"
    /\ last'.op = "SpendCoin" /\ last'.l = l /\ last'.o = o

\* C10 as stated: AddCoin(o, c) followed by SpendCoin(o) leaves GetCoin(o)
\* reporting no unspent coin, and no entry for o if the entry was FRESH
\* after the AddCoin.
C10_Original ==
    [][\A l \in Caches, o \in OutPoints :
        AddThenSpend(l, o) =>
            /\ ~ViewGetCoin(Stack', l, o).ret
            /\ FRESH \in FlagsOf(cacheCoins, l, o)
                  => o \notin DOMAIN cacheCoins'[l]]_vars

\* C10 amended: the same, except that GetCoin(o) reports the parent's coin
\* when the entry was FRESH after the AddCoin although the parent view holds
\* an unspent coin for o.
C10_AddSpendRoundTrip ==
    [][\A l \in Caches, o \in OutPoints :
        AddThenSpend(l, o) =>
            /\ ~(FRESH \in FlagsOf(cacheCoins, l, o) /\ ViewHasLive(Stack, l - 1, o))
                  => ~ViewGetCoin(Stack', l, o).ret
            /\ FRESH \in FlagsOf(cacheCoins, l, o)
                  => o \notin DOMAIN cacheCoins'[l]]_vars

\* SpendCoin on cache 2 has just erased the DIRTY|FRESH unspent entry of O1
\* and GetCoin(O1) finds no unspent coin.
C10_Witness ==
    /\ Did("SpendCoin", 2) /\ last.o = "O1" /\ last.ret
    /\ "O1" \in DOMAIN last.pre
    /\ last.pre["O1"].flags = {DIRTY, FRESH} /\ ~IsSpent(last.pre["O1"].coin)
    /\ "O1" \notin DOMAIN cacheCoins[2]
    /\ ~ViewGetCoin(Stack, 2, "O1").ret

(* ------------------------------------------------------------------ *)
(* C11                                                                *)
(* ------------------------------------------------------------------ *)

\* The stack without the entries that have neither flag, and without the
\* memory counters: what the calls below can tell apart.
Norm(st) ==
    [db |-> st.db, dbBest |-> st.dbBest, hash |-> st.hash,
     names |-> st.names, dbNames |-> st.dbNames,
     coins |-> [l \in Caches |->
                  [o \in {x \in DOMAIN st.coins[l] : st.coins[l][x].flags # {}}
                      |-> st.coins[l][o]]]]

\* The stack after Uncache(o) has been called on cache l for every pair
\* <<l, o>> of P.
RECURSIVE UncacheAll(_, _)
UncacheAll(st, P) ==
    IF P = {} THEN st
    ELSE LET p == CHOOSE x \in P : TRUE
         IN UncacheAll(Uncache(st, p[1], p[2]), P \ {p})

\* The stack after Uncache has been called for every outpoint on the caches
\* in L.
Uncached(st, L) == UncacheAll(st, L \X OutPoints)

\* The outcomes the call c (GetCoin, HaveCoin, AddCoin, SpendCoin or Flush)
\* can have on the stack st: the stack it leaves, what it returns and the
\* error it raises.
Outcomes(st, c) ==
    IF c.op = "GetCoin"
    THEN LET r == ViewGetCoin(st, c.l, c.o)
         IN {[st |-> Norm(r.st), ret |-> r.ret, coin |-> r.coin, err |-> "none"]}
    ELSE IF c.op = "HaveCoin"
    THEN LET r == HaveCoin(st, c.l, c.o)
         IN {[st |-> Norm(r.st), ret |-> r.ret, coin |-> coinEmpty, err |-> "none"]}
    ELSE IF c.op = "AddCoin"
    THEN LET r == AddCoin(st, c.l, c.o, c.coin, c.po)
         IN {[st |-> Norm(r.st), ret |-> r.err = "none", coin |-> c.coin,
              err |-> r.err]}
    ELSE IF c.op = "SpendCoin"
    THEN LET r == SpendCoin(st, c.l, c.o)
         IN {[st |-> Norm(r.st), ret |-> r.ret,
              coin |-> IF c.po THEN r.moveout ELSE coinEmpty, err |-> "none"]}
    ELSE {[st |-> Norm(r.st), ret |-> r.ret, coin |-> coinEmpty, err |-> r.err] :
            r \in {Flush(st, c.l, order, ok, keepSpent) :
                     order \in IterationOrders(DOMAIN st.coins[c.l]),
                     ok \in BOOLEAN, keepSpent \in BOOLEAN}}

\* The call just made would have had the same outcome had Uncache removed
\* the flagless entries of any of the caches first.
SameWithoutFlagless ==
    \A L \in SUBSET {l \in Caches : \E o \in DOMAIN cacheCoins[l] :
                                      cacheCoins[l][o].flags = {}} :
        [st |-> Norm(Stack'), ret |-> last'.ret, coin |-> last'.coin,
         err |-> last'.err] \in Outcomes(Uncached(Stack, L), last')

ObservedCalls == {"GetCoin", "HaveCoin", "AddCoin", "SpendCoin", "Flush"}

\* C11 as stated: on a stack used as a stack, every GetCoin, HaveCoin,
\* AddCoin, SpendCoin and Flush returns the same, raises the same and
\* leaves the same flagged entries and the same store whether or not
\* Uncache removed flagless entries before it.
C11_Original ==
    [][last'.op \in ObservedCalls => SameWithoutFlagless]_vars

\* The call just made was a Flush of a cache without a best-block hash
\* that held flagless entries only: with them it hands its map and its null
\* hash to the parent's BatchWrite, without them it returns true at once.
FlushOfReadsOnly ==
    /\ last'.op = "Flush"
    /\ hashBlock[last'.l] = NullHash
    /\ DOMAIN cacheCoins[last'.l] # {}
    /\ \A o \in DOMAIN cacheCoins[last'.l] : cacheCoins[last'.l][o].flags = {}

\* C11 amended: the same while no FRESH entry covers an unspent coin of the
\* parent view, except for an AddCoin with possible_overwrite = false on an
\* outpoint that is unspent in the cache's view (it raises
\* OverwriteUnspent when the flagless entry is there and stores the coin
\* DIRTY|FRESH when it is not) and for a Flush of a cache with a null
\* best-block hash that holds flagless entries only.
C11_UncacheUnobservable ==
    [][(/\ last'.op \in ObservedCalls
        /\ \A l \in Caches : FreshOK(Stack, l)
        /\ ~OverwritePromiseBroken
        /\ ~FlushOfReadsOnly)
          => SameWithoutFlagless]_vars

\* SpendCoin on cache 2 has just spent O1 through a flagless entry that an
\* Uncache could have removed: the entry is now spent and DIRTY.
C11_Witness ==
    /\ Did("SpendCoin", 2) /\ last.o = "O1" /\ last.ret
    /\ "O1" \in DOMAIN last.pre /\ last.pre["O1"].flags = {}
    /\ cacheCoins[2]["O1"] = CCoinsCacheEntry(coinEmpty, {DIRTY})

(* ------------------------------------------------------------------ *)
(* C12                                                                *)
(* ------------------------------------------------------------------ *)

\* C12: Uncache(o) on a cache whose entry for o is DIRTY or FRESH, or that
\* has no entry for o, changes nothing: maps, flags, counters, best-block
\* hashes and the store stay as they are (and so does the outcome of every
\* later call).  Uncache(o) on a flagless entry removes that entry, takes
\* its coin off the counter and changes nothing else.
C12_UncacheFrame ==
    [][\A l \in Caches, o \in OutPoints :
        (last'.op = "Uncache" /\ last'.l = l /\ last'.o = o) =>
            IF o \in DOMAIN cacheCoins[l] /\ cacheCoins[l][o].flags = {}
            THEN /\ cacheCoins' = [cacheCoins EXCEPT ![l] = MapErase(@, o)]
                 /\ cachedCoinsUsage' =
                        [cachedCoinsUsage EXCEPT
                           ![l] = @ - DynamicMemoryUsage(cacheCoins[l][o].coin)]
                 /\ UNCHANGED <<dbCoins, dbBestBlock, hashBlock>>
            ELSE Stack' = Stack]_vars

\* Uncache(O1) has just been called on a cache whose entry for O1 is an
\* unspent DIRTY coin with a heap-allocated script: the entry is still
\* there and still counted.
C12_Witness ==
    /\ last.op = "Uncache" /\ last.o = "O1"
    /\ "O1" \in DOMAIN last.pre /\ DIRTY \in last.pre["O1"].flags
    /\ last.pre["O1"].coin = CoinLarge
    /\ cacheCoins[last.l] = last.pre
    /\ cachedCoinsUsage[last.l] = DynamicMemoryUsage(CoinLarge)

(* ------------------------------------------------------------------ *)
(* C13                                                                *)
(* ------------------------------------------------------------------ *)

\* The entries of cache l that carry a flag.
FlaggedEntries(st, l) ==
    [o \in {x \in DOMAIN st.coins[l] : st.coins[l][x].flags # {}} |-> st.coins[l][o]]

\* What GetCoin(o) on view v answers: the return value, and the coin when
\* it returns true.
GetCoinAnswer(st, v, o) ==
    LET r == ViewGetCoin(st, v, o)
    IN [ret |-> r.ret, coin |-> IF r.ret THEN r.coin ELSE coinEmpty]

\* The parent, cache 1, answers GetCoin, HaveCoin, GetName and GetBestBlock
\* after the step as before it.
ParentAnswersSame ==
    /\ \A o \in OutPoints :
         /\ GetCoinAnswer(Stack', 1, o) = GetCoinAnswer(Stack, 1, o)
         /\ HaveCoin(Stack', 1, o).ret = HaveCoin(Stack, 1, o).ret
    /\ \A name \in Names : ViewGetName(Stack', 1, name) = ViewGetName(Stack, 1, name)
    /\ ViewGetBestBlock(Stack', 1).ret = ViewGetBestBlock(Stack, 1).ret

\* C13 as stated: a call on the child other than Flush leaves the parent's
\* answers to GetCoin, HaveCoin, GetName and GetBestBlock and the parent's
\* set of DIRTY or FRESH entries as they were.
C13_Original ==
    [][last'.l = 2 =>
          /\ ParentAnswersSame
          /\ FlaggedEntries(Stack', 1) = FlaggedEntries(Stack, 1)]_vars

\* The entries of cache l that are DIRTY.
DirtyEntries(st, l) ==
    [o \in {x \in DOMAIN st.coins[l] : DIRTY \in st.coins[l][x].flags} |-> st.coins[l][o]]

\* C13, amended: a call on the child other than Flush leaves the parent's
\* answers to GetCoin, HaveCoin, GetName and GetBestBlock and the parent's
\* DIRTY entries as they were, removes no entry of the parent and changes
\* none; an entry the parent gains is the image of what its own parent
\* returned to the child's read: flagless for a live coin, FRESH only for a
\* spent one.
C13_ChildLeavesParent ==
    [][last'.l = 2 =>
          /\ ParentAnswersSame
          /\ DirtyEntries(Stack', 1) = DirtyEntries(Stack, 1)
          /\ \A o \in DOMAIN cacheCoins[1] :
                o \in DOMAIN cacheCoins'[1] /\ cacheCoins'[1][o] = cacheCoins[1][o]
          /\ \A o \in DOMAIN cacheCoins'[1] \ DOMAIN cacheCoins[1] :
                /\ cacheCoins'[1][o].coin = DbGetCoin(Stack, o).coin
                /\ cacheCoins'[1][o].flags =
                      IF IsSpent(cacheCoins'[1][o].coin) THEN {FRESH} ELSE {}
          /\ cacheNames'[1] = cacheNames[1]]_vars

\* The child has spent a coin it read through the parent: the parent holds
\* the flagless image it cached for that read and still answers with the
\* live coin, the child holds the spent DIRTY entry.
C13_Witness ==
    /\ last.l = 2 /\ last.op = "SpendCoin" /\ last.ret
    /\ \E o \in OutPoints :
         /\ o \in DOMAIN cacheCoins[1] /\ cacheCoins[1][o].flags = {}
         /\ o \in DOMAIN cacheCoins[2] /\ cacheCoins[2][o].flags = {DIRTY}
         /\ IsSpent(cacheCoins[2][o].coin)
         /\ HaveCoin(Stack, 1, o).ret

(* ------------------------------------------------------------------ *)
(* C14                                                                *)
(* ------------------------------------------------------------------ *)

\* The step is a SetBestBlock on cache l.
SetBestBlockOn(l) == last'.op = "SetBestBlock" /\ last'.l = l

\* The step is a Flush of the cache layered on l that called BatchWrite on
\* l without it raising.
BatchWriteOn(l) ==
    /\ last'.op = "Flush" /\ last'.l = l + 1 /\ last'.err = "none"
    /\ ~(hashBlock[l + 1] = NullHash /\ DOMAIN cacheCoins[l + 1] = {}
           /\ empty(cacheNames[l + 1]))

\* After a SetBestBlock or a successful BatchWrite on l, hashBlock is the
\* hash that call was given.
HashIsLastGiven(l) ==
    /\ SetBestBlockOn(l) => hashBlock'[l] = last'.o
    /\ BatchWriteOn(l) => hashBlock'[l] = hashBlock[l + 1]

\* C14 as stated: hashBlock is the hash given to the most recent successful
\* BatchWrite or SetBestBlock on the cache, null before the first of them,
\* and no other operation (GetBestBlock, Flush, reads) changes it.
C14_Original ==
    [][\A l \in CallCaches :
          /\ HashIsLastGiven(l)
          /\ hashBlock'[l] # hashBlock[l] => SetBestBlockOn(l) \/ BatchWriteOn(l)]_vars

\* C14, amended: hashBlock is the hash given to the most recent successful
\* BatchWrite or SetBestBlock on the cache; the only other operation that
\* changes it is a GetBestBlock on the cache or on a cache layered on it,
\* which replaces a null hashBlock by the best block of the parent view.
C14_HashBlock ==
    [][\A l \in CallCaches :
          /\ HashIsLastGiven(l)
          /\ (hashBlock'[l] # hashBlock[l] /\ ~SetBestBlockOn(l) /\ ~BatchWriteOn(l))
                => /\ last'.op = "GetBestBlock" /\ last'.l >= l
                   /\ hashBlock[l] = NullHash
                   /\ hashBlock'[l] = ViewGetBestBlock(Stack, l - 1).ret
                   /\ last'.o = hashBlock'[l]]_vars

\* A GetBestBlock on a child has filled in the null hashBlock of child and
\* parent with the best block of the store.
C14_Witness ==
    /\ last.op = "GetBestBlock" /\ last.l = 2
    /\ last.o # NullHash
    /\ hashBlock[1] = last.o /\ hashBlock[2] = last.o
    /\ dbBestBlock = last.o

(* ------------------------------------------------------------------ *)
(* C15                                                                *)
(* ------------------------------------------------------------------ *)

\* The entry of cache l for o is FRESH and holds a spent coin.
FreshAndSpent(l, o) ==
    /\ o \in DOMAIN cacheCoins[l]
    /\ FRESH \in cacheCoins[l][o].flags
    /\ IsSpent(cacheCoins[l][o].coin)

\* C15 as stated: between public calls no cache entry is both FRESH and
\* spent.
C15_Original == \A l \in Caches, o \in OutPoints : ~FreshAndSpent(l, o)

\* C15, amended: between public calls an entry that is FRESH and spent is
\* not DIRTY and is the image FetchCoin cached of a spent coin that the
\* backing store returned as found; SpendCoin and BatchWrite leave no entry
\* that is FRESH and spent behind.
C15_FreshSpentOnlyFetched ==
    \A l \in Caches, o \in OutPoints :
        FreshAndSpent(l, o) =>
            /\ cacheCoins[l][o].flags = {FRESH}
            /\ l = 1
            /\ DbGetCoin(Stack, o).ret /\ IsSpent(DbGetCoin(Stack, o).coin)
            /\ ~(last.op = "SpendCoin" /\ last.l = l /\ last.o = o)
            /\ ~(last.op = "Flush" /\ last.l = l + 1 /\ last.err = "none"
                   /\ o \in DOMAIN last.pre /\ DIRTY \in last.pre[o].flags)

\* SpendCoin has erased the FRESH image of a spent coin that a fetch had
\* left in the cache.
C15_Witness ==
    /\ last.op = "SpendCoin" /\ last.l = 1
    /\ last.o \in DOMAIN last.pre
    /\ last.pre[last.o].flags = {FRESH} /\ IsSpent(last.pre[last.o].coin)
    /\ last.o \notin DOMAIN cacheCoins[1]

(* ------------------------------------------------------------------ *)
(* C16                                                                *)
(* ------------------------------------------------------------------ *)

\* The step is an AddCoin of a coin whose script is unspendable.
AddsUnspendable == last'.op = "AddCoin" /\ IsUnspendable(last'.coin)

\* C16 as stated: AddCoin of an unspendable coin changes neither the map,
\* the flags nor the counter, raises nothing, and a following HaveCoin(o)
\* returns false.
C16_Original ==
    [][AddsUnspendable =>
          /\ Stack' = Stack
          /\ last'.err = "none"
          /\ ~HaveCoin(Stack', last'.l, last'.o).ret]_vars

\* C16, amended: AddCoin of an unspendable coin changes neither the map, the
\* flags nor the counter of any cache, raises nothing, and a following
\* HaveCoin(o) answers as it did before the call: false unless the cache
\* or its parent view already held a live coin for o.
C16_UnspendableDropped ==
    [][AddsUnspendable =>
          /\ Stack' = Stack
          /\ last'.err = "none" /\ last'.ret
          /\ HaveCoin(Stack', last'.l, last'.o).ret = HaveCoin(Stack, last'.l, last'.o).ret
          /\ HaveCoin(Stack', last'.l, last'.o).ret = ViewHasLive(Stack, last'.l, last'.o)]_vars

\* An unspendable coin was added with possible_overwrite = false while the
\* cache held a live entry for the outpoint, which it still holds.
C16_Witness ==
    /\ last.op = "AddCoin" /\ IsUnspendable(last.coin) /\ ~last.po
    /\ last.o \in DOMAIN cacheCoins[last.l]
    /\ ~IsSpent(cacheCoins[last.l][last.o].coin)
    /\ cacheCoins[last.l] = last.pre

(* ------------------------------------------------------------------ *)
(* C17                                                                *)
(* ------------------------------------------------------------------ *)

\* What cache l reports about name: GetName, the history stack, and the
\* heights at which GetNamesForHeight lists it.
NameState(st, l, name) ==
    [data |-> ViewGetName(st, l, name),
     history |-> ViewGetNameHistory(st, l, name).history,
     heights |-> {h \in Heights : name \in ViewGetNamesForHeight(st, l, h).names}]

\* SetName(name, data, undo = false) followed by SetName(name, old,
\* undo = true), old being the record of name before the two calls.
SetThenUndo(st, l, name, data) ==
    LET old == ViewGetName(st, l, name).data
        r1 == SetName(st, l, name, data, FALSE)
        r2 == SetName(r1.st, l, name, old, TRUE)
    IN [st |-> r2.st, err |-> IF r1.err # "none" THEN r1.err ELSE r2.err]

\* C17: for a name with a record old, SetName(n, d, false) followed by
\* SetName(n, old, true) fails no assertion and restores what the cache
\* reports for n: GetName(n) returns old, the history stack is as before,
\* and the expire index lists n at old's height and at no other height.
C17_UndoRestores ==
    \A l \in CallCaches, name \in Names, data \in NameDatas :
        ViewGetName(Stack, l, name).ret =>
            LET old == ViewGetName(Stack, l, name).data
                r == SetThenUndo(Stack, l, name, data)
            IN /\ r.err = "none"
               /\ NameState(r.st, l, name) = NameState(Stack, l, name)
               /\ ViewGetName(r.st, l, name) = [ret |-> TRUE, data |-> old]
               /\ NameState(r.st, l, name).heights = {old.nHeight}

\* A SetName with undo = true has just put back the record that a SetName
\* to another height had replaced: the name is listed at its old height
\* only and the history stack is empty again.
C17_Witness ==
    /\ last.op = "SetName" /\ last.po /\ last.err = "none"
    /\ ViewGetName(Stack, last.l, last.o) = [ret |-> TRUE, data |-> last.coin]
    /\ fNameHistory
    /\ getHistory(cacheNames[last.l], last.o) = [ret |-> TRUE, history |-> << >>]
    /\ \E h \in Heights :
         /\ h # last.coin.nHeight
         /\ <<h, last.o>> \in DOMAIN cacheNames[last.l].expireIndex
         /\ ~cacheNames[last.l].expireIndex[<<h, last.o>>]
    /\ NameState(Stack, last.l, last.o).heights = {last.coin.nHeight}

(* ------------------------------------------------------------------ *)
(* C18                                                                *)
(* ------------------------------------------------------------------ *)

\* Flush of cache l takes its trivial path in the current state.
FlushIsTrivial(l) ==
    hashBlock[l] = NullHash /\ DOMAIN cacheCoins[l] = {} /\ empty(cacheNames[l])

\* C18: a Flush that raises nothing returns the result of the parent's
\* BatchWrite; when that is success the coin map and the name cache are
\* empty and the counter is zero afterwards, when it is failure the cache
\* holds its entries, its name changes and its counter as before.
C18_FlushClearsOnSuccessOnly ==
    [][(last'.op = "Flush" /\ last'.err = "none") =>
          LET l == last'.l IN
          IF last'.ret
          THEN /\ cacheCoins'[l] = EmptyMap
               /\ empty(cacheNames'[l])
               /\ ~FlushIsTrivial(l) => cachedCoinsUsage'[l] = 0
          ELSE /\ cacheCoins'[l] = cacheCoins[l]
               /\ cacheNames'[l] = cacheNames[l]
               /\ cachedCoinsUsage'[l] = cachedCoinsUsage[l]]_vars

(* ------------------------------------------------------------------ *)
(* C19                                                                *)
(* ------------------------------------------------------------------ *)

\* C19: a Flush of a cache whose coin map and name cache are empty and
\* whose hashBlock is null returns true, raises nothing and leaves the
\* cache, its parent and the store as they were.
C19_TrivialFlush ==
    [][(last'.op = "Flush" /\ FlushIsTrivial(last'.l)) =>
          /\ last'.ret /\ last'.err = "none"
          /\ Stack' = Stack]_vars

\* An empty child with a null hashBlock was flushed over a parent that holds
\* a DIRTY entry and a best block: the parent has kept both.
C19_Witness ==
    /\ last.op = "Flush" /\ last.l = 2 /\ last.ret
    /\ last.pre = EmptyMap /\ hashBlock[2] = NullHash /\ empty(cacheNames[2])
    /\ hashBlock[1] # NullHash
    /\ \E o \in OutPoints :
         o \in DOMAIN cacheCoins[1] /\ DIRTY \in cacheCoins[1][o].flags

(* ------------------------------------------------------------------ *)
(* C20                                                                *)
(* ------------------------------------------------------------------ *)

\* The AddCoin call that AddCoins is to make for output i (from 0) of tx
\* when possible_overwrite is chosen by the rule po.
ExpectedCall(tx, i, po(_)) ==
    [o |-> COutPoint(tx.txid, i),
     coin |-> Coin(tx.vout[i + 1], TxHeight, tx.fCoinBase),
     possible_overwrite |-> po(COutPoint(tx.txid, i))]

\* The step is an AddCoins on cache 1 whose AddCoin calls are, output by
\* output and in order, those chosen by the rule po: all of them when
\* nothing is raised, those up to the one that raised otherwise.
AddCoinsCallsBy(po(_)) ==
    LET tx == last'.o
        calls == last'.coin
    IN /\ Len(calls) <= Len(tx.vout)
       /\ last'.err = "none" => Len(calls) = Len(tx.vout)
       /\ last'.err # "none" => Len(calls) >= 1
       /\ \A i \in 1..Len(calls) : calls[i] = ExpectedCall(tx, i - 1, po)

\* C20 as stated: AddCoins calls AddCoin once for every output, with
\* possible_overwrite = true for a coinbase, and for other transactions
\* HaveCoin(outpoint) when check_for_overwrite is set and false otherwise.
C20_Original ==
    [][last'.op = "AddCoins" =>
          LET po(o) == IF last'.o.fCoinBase THEN TRUE
                       ELSE IF last'.po THEN HaveCoin(Stack, 1, o).ret
                       ELSE FALSE
          IN AddCoinsCallsBy(po)]_vars

\* C20, amended: AddCoins calls AddCoin for the outputs in order, once each,
\* stopping at a call that raises OverwriteUnspent; it passes
\* possible_overwrite = HaveCoin(outpoint) when check_for_overwrite is set,
\* for coinbase and other transactions alike, and otherwise true for a
\* coinbase and false for any other transaction.
C20_AddCoinsOverwrite ==
    [][last'.op = "AddCoins" =>
          LET po(o) == IF last'.po THEN HaveCoin(Stack, 1, o).ret
                       ELSE last'.o.fCoinBase
          IN /\ AddCoinsCallsBy(po)
             /\ last'.err \in {"none", "OverwriteUnspent"}
             /\ last'.err # "none" => ~last'.po /\ ~last'.o.fCoinBase]_vars

\* AddCoins with check_for_overwrite set has added the two outputs of a
\* coinbase: the first, for which the cache held a live coin, with
\* possible_overwrite = true, the second with possible_overwrite = false, so
\* that its entry is FRESH.
C20_Witness ==
    /\ last.op = "AddCoins" /\ last.po /\ last.err = "none"
    /\ last.o.fCoinBase
    /\ Len(last.coin) = 2
    /\ last.coin[1].possible_overwrite /\ ~last.coin[2].possible_overwrite
    /\ ~IsUnspendable(last.coin[2].coin)
    /\ cacheCoins[1][last.coin[2].o].flags = {DIRTY, FRESH}
    /\ cacheCoins[1][last.coin[1].o].flags = {DIRTY}

(* ------------------------------------------------------------------ *)
(* C21                                                                *)
(* ------------------------------------------------------------------ *)

\* The step is an AddCoins of a coinbase on cache 1 without the overwrite
\* check.
CoinbaseAddCoins ==
    /\ last'.op = "AddCoins" /\ last'.l = 1
    /\ last'.o.fCoinBase /\ ~last'.po

\* The outpoints of the transaction of the step at which cache 1 or its
\* parent held a live coin before the step.
HeldOutPoints ==
    {i \in 0..(Len(last'.o.vout) - 1) :
        ViewHasLive(Stack, 1, COutPoint(last'.o.txid, i))}

\* Those of them at which the live coin was a coinbase coin.
HeldCoinbaseOutPoints ==
    {i \in HeldOutPoints :
        ViewGetCoin(Stack, 1, COutPoint(last'.o.txid, i)).coin.fCoinBase}

\* After the step cache 1 holds, DIRTY, the coin of output i of the
\* transaction of the step.
HoldsNewCoin(i) ==
    LET o == COutPoint(last'.o.txid, i) IN
    /\ o \in DOMAIN cacheCoins'[1]
    /\ cacheCoins'[1][o].coin = Coin(last'.o.vout[i + 1], TxHeight, TRUE)
    /\ DIRTY \in cacheCoins'[1][o].flags

\* C21 as stated: AddCoins of a coinbase with check_for_overwrite = false
\* raises nothing, and every outpoint of it at which the cache or its parent
\* held a live coinbase coin holds the new coin afterwards, marked DIRTY.
C21_Original ==
    [][CoinbaseAddCoins =>
          /\ last'.err = "none"
          /\ \A i \in HeldCoinbaseOutPoints : HoldsNewCoin(i)]_vars

\* C21, amended: AddCoins of a coinbase with check_for_overwrite = false
\* raises nothing; every outpoint of it at which the cache or its parent
\* held a live coin and whose new output is spendable holds the new coin
\* afterwards, marked DIRTY and FRESH only if its entry was FRESH before;
\* the entry of an outpoint whose new output is unspendable is left as it
\* was, the old live coin included.
C21_CoinbaseOverwrite ==
    [][CoinbaseAddCoins =>
          /\ last'.err = "none"
          /\ \A i \in HeldOutPoints :
                LET o == COutPoint(last'.o.txid, i) IN
                IF IsUnspendable(last'.o.vout[i + 1])
                THEN /\ (o \in DOMAIN cacheCoins'[1]) = (o \in DOMAIN cacheCoins[1])
                     /\ o \in DOMAIN cacheCoins[1] =>
                            cacheCoins'[1][o] = cacheCoins[1][o]
                ELSE /\ HoldsNewCoin(i)
                     /\ FRESH \in cacheCoins'[1][o].flags =>
                            /\ o \in DOMAIN cacheCoins[1]
                            /\ FRESH \in cacheCoins[1][o].flags]_vars

\* A coinbase of two spendable outputs has been added without the overwrite
\* check over live coinbase coins that the cache held DIRTY for both
\* outpoints; both entries hold the new coins, DIRTY.
C21_Witness ==
    /\ last.op = "AddCoins" /\ ~last.po /\ last.err = "none"
    /\ last.o.fCoinBase
    /\ Len(last.coin) = 2
    /\ \A i \in 1..2 :
          LET o == last.coin[i].o IN
          /\ last.coin[i].possible_overwrite
          /\ ~IsUnspendable(last.coin[i].coin)
          /\ o \in DOMAIN last.pre
          /\ ~IsSpent(last.pre[o].coin) /\ last.pre[o].coin.fCoinBase
          /\ cacheCoins[1][o].coin = last.coin[i].coin
          /\ DIRTY \in cacheCoins[1][o].flags

(* ------------------------------------------------------------------ *)
(* C22                                                                *)
(* ------------------------------------------------------------------ *)

\* C22: when the read of the store under the error catcher raises a runtime
\* error, GetCoin on the catcher runs every registered callback, in the
\* order of registration, and the process aborts: no answer reaches the
\* caller and nothing more happens; when the read does not raise, the
\* store's answer (found or not, and the coin) is returned unchanged and no
\* callback runs.
C22_ErrorCatcher ==
    [][/\ last.err # "abort"
       /\ last'.op = "CatcherGetCoin" =>
             IF last'.po
             THEN /\ last'.err = "abort"
                  /\ called' = called \o m_err_callbacks
             ELSE /\ last'.err = "none"
                  /\ last'.ret = DbGetCoin(Stack, last'.o).ret
                  /\ last'.coin = DbGetCoin(Stack, last'.o).coin
                  /\ called' = called]_vars

\* The store failed a read while two different callbacks were registered:
\* both have run, the first registered first, and the process has aborted.
C22_Witness ==
    /\ last.op = "CatcherGetCoin" /\ last.po /\ last.err = "abort"
    /\ Len(m_err_callbacks) = 2 /\ m_err_callbacks[1] # m_err_callbacks[2]
    /\ called = m_err_callbacks

(* ------------------------------------------------------------------ *)
(* C23                                                                *)
(* ------------------------------------------------------------------ *)

\* The stack after SpendCoin(o), AddCoin(o, c2, possible_overwrite) and
\* SpendCoin(o) again on cache l of the stack st, and the error raised on
\* the way.
SpendAddSpend(st, l, o, c2, possible_overwrite) ==
    LET s1 == SpendCoin(st, l, o).st
        a == AddCoin(s1, l, o, c2, possible_overwrite)
    IN [st |-> SpendCoin(a.st, l, o).st, err |-> a.err]

\* Cache l of the stack st holds o as a spent coin with DIRTY set.
OwesSpend(st, l, o) ==
    /\ o \in DOMAIN st.coins[l]
    /\ IsSpent(st.coins[l][o].coin)
    /\ DIRTY \in st.coins[l][o].flags

\* C23 as stated: whenever the parent of a cache holds a live coin at o,
\* after SpendCoin(o), AddCoin(o, c2, either possible_overwrite) and
\* SpendCoin(o) the cache holds o spent and DIRTY, and after a following
\* Flush (one that succeeds) the parent reports o as spent.
C23_Original ==
    \A l \in CallCaches, o \in OutPoints, c2 \in CoinArgs, po \in BOOLEAN :
        ViewHasLive(Stack, l - 1, o) =>
            LET r == SpendAddSpend(Stack, l, o, c2, po) IN
            /\ r.err = "none"
            /\ OwesSpend(r.st, l, o)
            /\ \A order \in IterationOrders(DOMAIN r.st.coins[l]),
                  ok \in BOOLEAN, keepSpent \in BOOLEAN :
                    LET f == Flush(r.st, l, order, ok, keepSpent) IN
                    f.ret => ~ViewHasLive(f.st, l - 1, o)

\* C23, amended: whenever the parent of a cache holds a live coin at o and
\* neither the cache nor a cache below it has a FRESH entry over a live
\* coin of its parent, after SpendCoin(o), AddCoin(o, c2, either
\* possible_overwrite) and SpendCoin(o) nothing was raised and the cache
\* holds o spent, DIRTY and not FRESH; a following Flush raises nothing, and
\* the parent reports o as spent afterwards exactly if the Flush returned
\* true.
C23_SpendSurvivesReAdd ==
    \A l \in CallCaches, o \in OutPoints, c2 \in CoinArgs, po \in BOOLEAN :
        /\ ViewHasLive(Stack, l - 1, o)
        /\ \A k \in 1..l : FreshOK(Stack, k)
        => LET r == SpendAddSpend(Stack, l, o, c2, po) IN
           /\ r.err = "none"
           /\ OwesSpend(r.st, l, o)
           /\ FRESH \notin r.st.coins[l][o].flags
           /\ \A order \in IterationOrders(DOMAIN r.st.coins[l]),
                 ok \in BOOLEAN, keepSpent \in BOOLEAN :
                   LET f == Flush(r.st, l, order, ok, keepSpent) IN
                   /\ f.err = "none"
                   /\ f.ret = ~ViewHasLive(f.st, l - 1, o)

\* The parent of cache 2 holds a live coin, and cache 2 has just spent the
\* coin that was added again over its DIRTY spent entry: the entry is still
\* there, spent and DIRTY.
C23_Witness ==
    /\ last.op = "SpendCoin" /\ last.l = 2 /\ last.ret
    /\ last.o \in DOMAIN last.pre
    /\ last.pre[last.o].flags = {DIRTY}
    /\ ~IsSpent(last.pre[last.o].coin)
    /\ ViewHasLive(Stack, 1, last.o)
    /\ OwesSpend(Stack, 2, last.o)
    /\ \A order \in IterationOrders(DOMAIN cacheCoins[2]) :
          ~ViewHasLive(Flush(Stack, 2, order, TRUE, FALSE).st, 1, last.o)

(* ------------------------------------------------------------------ *)
(* C24                                                                *)
(* ------------------------------------------------------------------ *)

\* The map of cache l or its parent yields an entry for o.
YieldsEntry(l, o) ==
    o \in DOMAIN cacheCoins[l] \/ ViewGetCoin(Stack, l - 1, o).ret

\* The entry for o that a call on cache l works on: the one in the map, or
\* else the parent's coin, FRESH when that coin is spent.
EntryFor(l, o) ==
    IF o \in DOMAIN cacheCoins[l] THEN cacheCoins[l][o]
    ELSE LET coin == ViewGetCoin(Stack, l - 1, o).coin IN
         CCoinsCacheEntry(coin, IF IsSpent(coin) THEN {FRESH} ELSE {})

\* The step leaves cache k as it was, or gives it no more than its own
\* FRESH copy of a spent coin for o that it had no entry for.
OnlyCachedSpent(k, o) ==
    /\ cachedCoinsUsage'[k] = cachedCoinsUsage[k]
    /\ \/ cacheCoins'[k] = cacheCoins[k]
       \/ /\ o \notin DOMAIN cacheCoins[k]
          /\ cacheCoins'[k] = MapPut(cacheCoins[k], o,
                                     CCoinsCacheEntry(coinEmpty, {FRESH}))

\* C24: SpendCoin(o) on a cache returns false when neither its map nor its
\* parent yields an entry for o, and then changes nothing: the cache, the
\* caches above it, the store, the hashes and the names are as before, and
\* a cache below has at most kept its own copy of the spent coin it read.
\* Otherwise it returns true, moveout (when given) receives the coin the
\* entry held, and the entry is gone from the map if it was FRESH and else
\* is in the map, spent, with DIRTY added to its flags.
C24_SpendCoin ==
    [][last'.op = "SpendCoin" =>
          LET l == last'.l
              o == last'.o
              it == EntryFor(l, o)
          IN IF ~YieldsEntry(l, o)
             THEN /\ ~last'.ret
                  /\ \A k \in Caches :
                        IF k < l THEN OnlyCachedSpent(k, o)
                        ELSE /\ cacheCoins'[k] = cacheCoins[k]
                             /\ cachedCoinsUsage'[k] = cachedCoinsUsage[k]
                  /\ UNCHANGED <<dbCoins, dbBestBlock, hashBlock, cacheNames,
                                 dbNames>>
             ELSE /\ last'.ret
                  /\ last'.po => last'.coin = it.coin
                  /\ IF FRESH \in it.flags
                     THEN o \notin DOMAIN cacheCoins'[l]
                     ELSE /\ o \in DOMAIN cacheCoins'[l]
                          /\ cacheCoins'[l][o] =
                                CCoinsCacheEntry(coinEmpty, it.flags \cup {DIRTY})]_vars

\* SpendCoin on cache 2, which had no entry for the outpoint, has handed
\* the live coin of its parent to moveout and keeps the outpoint as a spent
\* DIRTY entry.
C24_Witness ==
    /\ last.op = "SpendCoin" /\ last.l = 2 /\ last.ret /\ last.po
    /\ last.o \notin DOMAIN last.pre
    /\ ~IsSpent(last.coin)
    /\ cacheCoins[2][last.o] = CCoinsCacheEntry(coinEmpty, {DIRTY})

(* ------------------------------------------------------------------ *)
(* C25                                                                *)
(* ------------------------------------------------------------------ *)

\* C25 as stated: SpendCoin(o) returns true only if HaveCoin(o) would have
\* returned true just before the call.
C25_Original ==
    [][last'.op = "SpendCoin" /\ last'.ret =>
          HaveCoin(Stack, last'.l, last'.o).ret]_vars

\* C25, amended: SpendCoin(o) returns true exactly when the map of the
\* cache holds an entry for o or the parent's GetCoin returns true for o.
\* So it returns true whenever HaveCoin(o) would have, and also for an
\* entry of the map that is already spent; it returns false for an outpoint
\* that is not in the map and is spent in, or unknown to, a parent cache.
C25_SpendCoinReturn ==
    [][last'.op = "SpendCoin" =>
          LET l == last'.l
              o == last'.o
          IN /\ last'.ret = YieldsEntry(l, o)
             /\ HaveCoin(Stack, l, o).ret => last'.ret
             /\ o \in DOMAIN cacheCoins[l] => last'.ret
             /\ (l > 1 /\ o \notin DOMAIN cacheCoins[l]
                       /\ ~ViewHasLive(Stack, l - 1, o)) => ~last'.ret]_vars

\* SpendCoin has returned true for an outpoint that its cache held as a
\* spent DIRTY entry, left by an earlier spend.
C25_Witness ==
    /\ last.op = "SpendCoin" /\ last.ret
    /\ last.o \in DOMAIN last.pre
    /\ last.pre[last.o] = CCoinsCacheEntry(coinEmpty, {DIRTY})
    /\ cacheCoins[last.l][last.o] = CCoinsCacheEntry(coinEmpty, {DIRTY})

(* ------------------------------------------------------------------ *)
(* C26                                                                *)
(* ------------------------------------------------------------------ *)

\* The entry a fetch makes of the coin its parent returned.
FetchedEntry(coin) ==
    CCoinsCacheEntry(coin, IF IsSpent(coin) THEN {FRESH} ELSE {})

\* The step read o through cache l: an outpoint in
\* the map is answered from the map, no cache is touched; for one missing
\* from the map the caches below are as one GetCoin on the parent leaves
\* them, and the map has no entry for o if the parent returned false and
\* else the entry made of the parent's coin.
ReadThrough(l, o) ==
    LET r == ViewGetCoin(Stack, l - 1, o) IN
    IF o \in DOMAIN cacheCoins[l]
    THEN cacheCoins' = cacheCoins
    ELSE /\ \A k \in Caches : k # l => cacheCoins'[k] = r.st.coins[k]
         /\ IF r.ret
            THEN /\ o \in DOMAIN cacheCoins'[l]
                 /\ cacheCoins'[l][o] = FetchedEntry(r.coin)
            ELSE o \notin DOMAIN cacheCoins'[l]

\* C26: GetCoin, HaveCoin and AccessCoin of an outpoint missing from the map
\* consult the parent once and leave no entry, an entry with flags exactly
\* FRESH or an entry without flags as the parent returned false, a spent
\* coin or a live coin; for an outpoint in the map they do not consult the
\* parent and leave the entry and its flags alone.  SpendCoin fetches in
\* the same way, and what it then does is done to that entry: after it the
\* map has no entry for o if the parent returned false or the entry was
\* FRESH, and else holds o spent with DIRTY added to the flags it had.
C26_ReadThrough ==
    [][/\ last'.op \in {"GetCoin", "HaveCoin", "AccessCoin"} =>
             ReadThrough(last'.l, last'.o)
       /\ last'.op = "SpendCoin" =>
             LET l == last'.l
                 o == last'.o
                 r == ViewGetCoin(Stack, l - 1, o)
                 inMap == o \in DOMAIN cacheCoins[l]
                 it == IF inMap THEN cacheCoins[l][o] ELSE FetchedEntry(r.coin)
             IN /\ \A k \in Caches : k # l =>
                      cacheCoins'[k] = IF inMap THEN cacheCoins[k] ELSE r.st.coins[k]
                /\ IF (~inMap /\ ~r.ret) \/ FRESH \in it.flags
                   THEN o \notin DOMAIN cacheCoins'[l]
                   ELSE /\ o \in DOMAIN cacheCoins'[l]
                        /\ cacheCoins'[l][o] =
                              CCoinsCacheEntry(coinEmpty, it.flags \cup {DIRTY})]_vars

\* A read on cache 1, which had no entry for the outpoint, has met a spent
\* coin in the store: the cache holds it with flags exactly FRESH.
C26_Witness ==
    /\ last.op \in {"GetCoin", "HaveCoin", "AccessCoin"} /\ last.l = 1
    /\ last.o \notin DOMAIN last.pre
    /\ last.o \in DOMAIN dbCoins /\ IsSpent(dbCoins[last.o])
    /\ cacheCoins[1][last.o] = CCoinsCacheEntry(coinEmpty, {FRESH})

(* ------------------------------------------------------------------ *)
(* C27                                                                *)
(* ------------------------------------------------------------------ *)

\* C27: when BatchWrite on cache 1 (called by the Flush of cache 2) raises
\* FreshAppliedToExisting, cache 1 is left exactly as it was before the
\* call: its map, its memory counter, its best-block hash and its name
\* cache are unchanged.
C27_BatchWriteAllOrNothing ==
    [][(last'.op = "Flush" /\ last'.l = 2
            /\ last'.err = "FreshAppliedToExisting") =>
          /\ cacheCoins'[1] = cacheCoins[1]
          /\ cachedCoinsUsage'[1] = cachedCoinsUsage[1]
          /\ hashBlock'[1] = hashBlock[1]
          /\ cacheNames'[1] = cacheNames[1]]_vars

(* ------------------------------------------------------------------ *)
(* C28                                                                *)
(* ------------------------------------------------------------------ *)

\* C28: in every state reached through the reads, AddCoin, SpendCoin,
\* Uncache, BatchWrite and Flush, an entry with neither flag holds a live
\* coin, an entry that is FRESH and not DIRTY holds a spent coin, and no
\* entry is DIRTY, FRESH and spent.
C28_EntryShapes ==
    \A l \in Caches : \A o \in DOMAIN cacheCoins[l] :
        LET e == cacheCoins[l][o] IN
        /\ e.flags = {} => ~IsSpent(e.coin)
        /\ e.flags = {FRESH} => IsSpent(e.coin)
        /\ ~({DIRTY, FRESH} \subseteq e.flags /\ IsSpent(e.coin))

\* The Flush of cache 2 has merged a DIRTY live coin into cache 1, which
\* held the outpoint as the FRESH copy of a spent coin of the store: the
\* entry of cache 1 is now DIRTY and FRESH and holds the live coin.
C28_Witness ==
    /\ last.op = "Flush" /\ last.l = 2 /\ last.err = "none"
    /\ \E o \in DOMAIN last.pre :
          /\ last.pre[o].flags = {DIRTY} /\ ~IsSpent(last.pre[o].coin)
          /\ o \in DOMAIN dbCoins /\ IsSpent(dbCoins[o])
          /\ o \in DOMAIN cacheCoins[1]
          /\ cacheCoins[1][o] = CCoinsCacheEntry(last.pre[o].coin, {DIRTY, FRESH})

(* ------------------------------------------------------------------ *)
(* C29                                                                *)
(* ------------------------------------------------------------------ *)

\* C29: DeleteName(n) on a cache fails an assertion exactly when GetName(n)
\* returns no record or, with history tracking enabled, the history of n is
\* not empty.  Otherwise n is tombstoned and the expire entry of its old
\* record is removed: GetName(n) on the cache returns false and
\* GetNamesForHeight at the old height no longer lists n, while the parent
\* and the store still answer as before; and after a Flush that succeeds
\* GetName(n) on the parent returns false as well.
C29_DeleteName ==
    \A l \in CallCaches, name \in Names :
        LET old == ViewGetName(Stack, l, name)
            h == ViewGetNameHistory(Stack, l, name)
            r == DeleteName(Stack, l, name)
        IN /\ (r.err = "assert") =
                 (~old.ret \/ (fNameHistory /\ h.history # << >>))
           /\ r.err = "none" =>
                 /\ isDeleted(r.st.names[l], name)
                 /\ ~ViewGetName(r.st, l, name).ret
                 /\ name \notin ViewGetNamesForHeight(r.st, l, old.data.nHeight).names
                 /\ r.st.dbNames = dbNames
                 /\ ViewGetName(r.st, l - 1, name) = ViewGetName(Stack, l - 1, name)
                 /\ \A order \in IterationOrders(DOMAIN r.st.coins[l]),
                       ok \in BOOLEAN, keepSpent \in BOOLEAN :
                         LET f == Flush(r.st, l, order, ok, keepSpent) IN
                         f.ret => /\ ~ViewGetName(f.st, l - 1, name).ret
                                  /\ ~ViewGetName(f.st, l, name).ret

\* DeleteName on cache 1 has tombstoned a name whose record the store still
\* holds: the cache answers false for it and no longer lists it at the
\* height of that record.
C29_Witness ==
    /\ last.op = "DeleteName" /\ last.l = 1 /\ last.err = "none"
    /\ last.o \in DOMAIN dbNames.entries
    /\ isDeleted(cacheNames[1], last.o)
    /\ ~ViewGetName(Stack, 1, last.o).ret
    /\ DbGetName(Stack, last.o).ret
    /\ last.o \notin ViewGetNamesForHeight(Stack, 1,
                        dbNames.entries[last.o].nHeight).names

(* ------------------------------------------------------------------ *)
(* C30                                                                *)
(* ------------------------------------------------------------------ *)

\* On view v the expire index agrees with the name records: a height lists
\* a name exactly if GetName returns a record of the name with that height.
ExpireConsistent(st, v) ==
    \A name \in Names, h \in Heights :
        (name \in ViewGetNamesForHeight(st, v, h).names)
            = (/\ ViewGetName(st, v, name).ret
               /\ ViewGetName(st, v, name).data.nHeight = h)

\* C30: over a store whose expire index agrees with its name records, after
\* any sequence of SetName, DeleteName and Flush calls on the caches used as
\* a stack, GetNamesForHeight(h) on the store and on each cache contains a
\* name exactly if GetName returns a record of it whose height is h.
C30_ExpireIndexConsistent ==
    Alive => \A v \in {0} \cup CallCaches : ExpireConsistent(Stack, v)

\* SetName on cache 2 has moved a name that its parent lists at another
\* height: cache 2 lists the name at the new height only, over a parent
\* that still lists it at the old one.
C30_Witness ==
    /\ last.op = "SetName" /\ last.l = 2 /\ last.err = "none"
    /\ ViewGetName(Stack, 1, last.o).ret
    /\ ViewGetName(Stack, 1, last.o).data.nHeight # last.coin.nHeight
    /\ last.o \in ViewGetNamesForHeight(Stack, 1,
                     ViewGetName(Stack, 1, last.o).data.nHeight).names
    /\ last.o \notin ViewGetNamesForHeight(Stack, 2,
                        ViewGetName(Stack, 1, last.o).data.nHeight).names
    /\ last.o \in ViewGetNamesForHeight(Stack, 2, last.coin.nHeight).names

====
